---------------------------- MODULE Spec2Model ----------------------------
(***************************************************************************)
(* Model of the transcription service (joshS28/transcribe).                *)
(*                                                                         *)
(*   - the file kind classifier isAudioFile (utils/audioUtils.js), in its  *)
(*     current form and in the older variant that the repository still     *)
(*     carries;                                                            *)
(*   - the POST /api/transcribe handler (routes/transcribe.js) with the    *)
(*     helpers it calls: createTempPaths, downloadFile, cleanupFiles,      *)
(*     validateFileSize, extractAudioFromVideo, transcribeAudio,           *)
(*     analyzeSentiment, generateSummary.                                  *)
(*   - cleanupFiles (utils/fileUtils.js) called repeatedly on its own;     *)
(*   - analyzeVideoContent with extractFrames (utils/videoUtils.js): the   *)
(*     duration probe, the frame grabs joined by Promise.all, the frame    *)
(*     analysis loop, the summary call and the removal of the frames       *)
(*     directory.                                                          *)
(*                                                                         *)
(* The handler is an async function: each action below is one run of the   *)
(* handler between two awaits (JavaScript runs such a stretch atomically). *)
(* What the network, the provider, ffmpeg and the file system answer is    *)
(* drawn with \E from the small sets defined here.                         *)
(*                                                                         *)
(* JavaScript values: a value that may be null or undefined is modelled as *)
(* a set with at most one element, Null = {} and Some(v) = {v}.  An object *)
(* is a function from its keys; a key the object lacks reads as Null.      *)
(* Strings are TLA+ strings; sizes are whole bytes.                        *)
(***************************************************************************)
EXTENDS Integers, Sequences, FiniteSets, TLC

VARIABLES
    \* ---- classifier harness (SpecClassify) ----
    clPath,         \* filePath argument handed to the classifier
    clType,         \* contentType argument (Null or Some(string))
    clVariant,      \* which isAudioFile ran: "none", "current", "legacy"
    clResult,       \* Null, or Some(result of the call)
    \* ---- cleanupFiles harness (SpecCleanup) ----
    cuPaths,        \* the filePaths argument: a sequence of Null or Some(path)
    cuRuns,         \* the cleanupFiles calls made so far, in order
    \* ---- one analyzeVideoContent call (SpecVideo) ----
    vpc,            \* where analyzeVideoContent is suspended
    options,        \* [intervalSeconds, maxFrames] of the call
    tempDir,        \* Null, or Some(set of frame indexes written in the frames directory)
    probeOutcome,   \* "none", then "resolved" or "rejected": what ffprobe answered
    videoDuration,  \* Null until probed, then Some(number)
    framePaths,     \* extractFrames' framePaths: sequence of [index, timestamp]
    extractPromises,\* state of each grab: "pending", "resolved", "rejected"
    extracted,      \* completion of extractFrames: Null, or Some(Return/Throw)
    frameIndex,     \* i of the analysis loop while a vision call is awaited
    visionCalls,    \* frame indexes sent to the vision model, in order
    visionFailed,   \* frame indexes whose vision call failed or answered no JSON
    summaryReply,   \* what the cross-frame summary call answered (Null: not yet)
    frameAnalyses,  \* analyzeVideoContent's frameAnalyses
    analysis,       \* completion of analyzeVideoContent: Null, or Some(Return/Throw)
    \* ---- aggregateFrameAnalyses harness (SpecAggregate) ----
    agInput,        \* the frameAnalyses argument
    agResult,       \* Null, or Some(result of the call)
    \* ---- getOpenAIClient harness (SpecClient) ----
    gcEnv,          \* process.env.OPENAI_API_KEY: Null or Some(string)
    gcClient,       \* the module variable openaiClient: Null or Some(instance)
    gcBuilt,        \* how many times new OpenAI(...) ran
    gcCalls,        \* the calls of getOpenAIClient so far, with their outcome
    \* ---- concurrent requests harness (SpecPaths) ----
    rqNow,          \* Date.now(), as a count of milliseconds
    rqStage,        \* per request: "idle", "allocated", "downloaded", "extracted", "done"
    rqPaths,        \* per request: Null, or Some(result of createTempPaths)
    rqFiles,        \* the temp files on disk: path -> the request that wrote it last
    \* ---- process-wide state ----
    apiKey,         \* process.env.OPENAI_API_KEY is set
    ffmpegPath,     \* module-level ffmpegPath of the route: Null or Some(path)
    openaiClient,   \* the lazily created provider client exists
    disk,           \* the temp area: existing path -> size in bytes
    \* ---- one POST /api/transcribe request ----
    pc,             \* where the handler is suspended
    url,            \* req.body.url as a tagged value [t, v]
    tempInputPath,  \* Null or Some(path)
    tempOutputPath, \* Null or Some(path)
    contentType,    \* content type reported by downloadFile
    fileIsAudio,    \* Null until classified, then Some(BOOLEAN)
    audioFilePath,  \* Null, or Some(path handed to transcribeAudio)
    extractionTime, \* ms, 0 unless extraction ran
    outputSizeBytes,\* size behind outputSizeMB (bytes)
    transcriptionResult, \* Null or Some(record)
    sentimentResult,     \* Null or Some(object)
    summaryResult,       \* Null or Some(object)
    responses,      \* sequence of responses emitted for the request
    \* ---- history of the request (observation only) ----
    calls,          \* sequence of [op, path, size]: helper invocations in order
    outcomes,       \* what the environment answered, per stage
    thrownBy,       \* stage whose error reached the handler's catch ("none")
    unlinkFailed    \* paths whose unlinkSync threw

clVars == <<clPath, clType, clVariant, clResult>>

cuVars == <<cuPaths, cuRuns>>

videoVars == <<vpc, options, tempDir, probeOutcome, videoDuration, framePaths,
               extractPromises, extracted, frameIndex, visionCalls, visionFailed,
               summaryReply, frameAnalyses, analysis>>

agVars == <<agInput, agResult>>

gcVars == <<gcEnv, gcClient, gcBuilt, gcCalls>>

rqVars == <<rqNow, rqStage, rqPaths, rqFiles>>

\* the variables the request handler never touches
harnessVars == <<clVars, cuVars, videoVars, agVars, gcVars, rqVars>>

procVars == <<apiKey, ffmpegPath, openaiClient, disk>>

reqVars == <<pc, url, tempInputPath, tempOutputPath, contentType, fileIsAudio,
             audioFilePath, extractionTime, outputSizeBytes, transcriptionResult,
             sentimentResult, summaryResult, responses>>

histVars == <<calls, outcomes, thrownBy, unlinkFailed>>

vars == <<clVars, cuVars, videoVars, agVars, gcVars, rqVars, procVars, reqVars, histVars>>

-----------------------------------------------------------------------------
(* JavaScript values *)

Null == {}

Some(v) == {v}

Val(m) == CHOOSE v \in m : TRUE

\* obj.key on an object: undefined (Null) when the key is missing
Get(obj, k) == IF k \in DOMAIN obj THEN obj[k] ELSE Null

\* { ...a, ...b }: keys of b override keys of a
Spread(a, b) ==
    [k \in (DOMAIN a) \cup (DOMAIN b) |-> IF k \in DOMAIN b THEN b[k] ELSE a[k]]

\* a completed call: a returned value or a thrown error
Return(v) == [threw |-> FALSE, value |-> v]

Throw(msg) == [threw |-> TRUE, value |-> msg]

-----------------------------------------------------------------------------
(* Strings *)

UpperChars == "ABCDEFGHIJKLMNOPQRSTUVWXYZ"

LowerChars == "abcdefghijklmnopqrstuvwxyz"

\* one character of String.prototype.toLowerCase (ASCII)
LowerChar(c) ==
    IF \E i \in 1..Len(UpperChars) : SubSeq(UpperChars, i, i) = c
    THEN LET i == CHOOSE j \in 1..Len(UpperChars) : SubSeq(UpperChars, j, j) = c
         IN  SubSeq(LowerChars, i, i)
    ELSE c

RECURSIVE toLowerCase(_)
toLowerCase(s) ==
    IF Len(s) = 0 THEN ""
    ELSE LowerChar(SubSeq(s, 1, 1)) \o toLowerCase(SubSeq(s, 2, Len(s)))

\* String.prototype.includes
includes(s, t) ==
    \E i \in 1..(Len(s) - Len(t) + 1) : SubSeq(s, i, i + Len(t) - 1) = t

\* index of the last occurrence of the one-character string c in s, 0 if none
LastIndexOf(s, c) ==
    LET hits == {i \in 1..Len(s) : SubSeq(s, i, i) = c}
    IN  IF hits = {} THEN 0 ELSE CHOOSE i \in hits : \A j \in hits : j <= i

\* path.basename (POSIX, no trailing slash)
basename(p) == SubSeq(p, LastIndexOf(p, "/") + 1, Len(p))

\* path.extname: from the last "." of the basename to its end; "" when there is
\* no "." or the only "." is the basename's first character
extname(p) ==
    LET b == basename(p)
        d == LastIndexOf(b, ".")
    IN  IF d <= 1 \/ b = ".." THEN "" ELSE SubSeq(b, d, Len(b))

IsWhite(c) == c \in {" ", "\n", "\t", "\r"}

\* String.prototype.trim
RECURSIVE trim(_)
trim(s) ==
    IF Len(s) = 0 THEN s
    ELSE IF IsWhite(SubSeq(s, 1, 1)) THEN trim(SubSeq(s, 2, Len(s)))
    ELSE IF IsWhite(SubSeq(s, Len(s), Len(s))) THEN trim(SubSeq(s, 1, Len(s) - 1))
    ELSE s

\* text.split(/\s+/).filter(w => w.length > 0).length: the maximal runs of
\* non-whitespace characters
wordCount(s) ==
    Cardinality({i \in 1..Len(s) :
        /\ ~IsWhite(SubSeq(s, i, i))
        /\ (i = 1 \/ IsWhite(SubSeq(s, i - 1, i - 1)))})

-----------------------------------------------------------------------------
(* File kind classifier *)

audioOnlyExtensions == {".mp3", ".mpga", ".m4a", ".wav", ".ogg", ".flac", ".aac"}

ambiguousExtensions == {".mp4", ".mpeg", ".webm"}

audioMimeTypes ==
    {"audio/mpeg", "audio/mp3", "audio/mp4", "audio/m4a", "audio/wav",
     "audio/webm", "audio/ogg", "audio/flac", "audio/x-m4a", "audio/aac"}

videoMimeTypes ==
    {"video/mp4", "video/mpeg", "video/webm", "video/quicktime",
     "video/x-msvideo", "video/x-matroska", "video/3gpp", "video/x-flv"}

\* a JavaScript truthiness test of a string-or-null value
Truthy(m) == m # Null /\ Val(m) # ""

\* contentType ? contentType.toLowerCase() : null
normalizedContentType(ct) == IF Truthy(ct) THEN Some(toLowerCase(Val(ct))) ELSE Null

\* types.some((type) => normalizedContentType.includes(type))
someIncludes(types, nct) == \E type \in types : includes(nct, type)

\* isAudioFile(filePath, contentType): TRUE = audio only, FALSE = needs extraction
isAudioFile(filePath, ct) ==
    LET ext == toLowerCase(extname(filePath))
        nct == normalizedContentType(ct)
    IN  IF nct # Null /\ someIncludes(videoMimeTypes, Val(nct)) THEN FALSE
        ELSE IF nct # Null /\ someIncludes(audioMimeTypes, Val(nct)) THEN TRUE
        ELSE IF ext \in audioOnlyExtensions THEN TRUE
        ELSE IF ext \in ambiguousExtensions THEN FALSE
        ELSE FALSE

legacyAudioExtensions ==
    {".mp3", ".mp4", ".mpeg", ".mpga", ".m4a", ".wav", ".webm", ".ogg", ".flac"}

legacyAudioMimeTypes ==
    {"audio/mpeg", "audio/mp3", "audio/mp4", "audio/m4a", "audio/wav",
     "audio/webm", "audio/ogg", "audio/flac", "audio/x-m4a"}

\* the older isAudioFile: extension first, then the audio content types
isAudioFileLegacy(filePath, ct) ==
    LET ext == toLowerCase(extname(filePath))
    IN  IF ext \in legacyAudioExtensions THEN TRUE
        ELSE IF Truthy(ct) /\ someIncludes(legacyAudioMimeTypes, toLowerCase(Val(ct)))
             THEN TRUE
        ELSE FALSE

-----------------------------------------------------------------------------
(* Bounds of the model and program constants *)

\* sizes tried around the 25 MB ceiling: the ceiling -SizeSlack .. +SizeSlack
SizeSlack == 1

\* extraction times tried, in ms: 0 .. MaxElapsed
MaxElapsed == 1

\* token counts the provider reports: 1 .. MaxTokens
MaxTokens == 1

\* Whisper's upload ceiling in MB
MaxFileSizeMB == 25

BytesPerMB == 1024 * 1024

\* the ceiling test written with >=
exceedsLimitInclusive(sizeBytes) == sizeBytes >= MaxFileSizeMB * BytesPerMB

\* sizeInMB > 25 with sizeInMB = stats.size / (1024 * 1024): the division by a
\* power of two is exact in a double, so the test is this one on whole bytes
exceedsLimit(sizeBytes) == sizeBytes > MaxFileSizeMB * BytesPerMB

Sizes ==
    {0} \cup ((MaxFileSizeMB * BytesPerMB - SizeSlack) ..
              (MaxFileSizeMB * BytesPerMB + SizeSlack))

Elapsed == 0..MaxElapsed

\* req.body.url: t is its typeof, v its text
UrlInputs ==
    { [t |-> "undefined", v |-> ""],
      [t |-> "number",    v |-> "123"],
      [t |-> "string",    v |-> ""],
      [t |-> "string",    v |-> "https://cdn.example.com/talk.mp3"],
      [t |-> "string",    v |-> "https://cdn.example.com/clip.mov"] }

\* `${Date.now()}-${Math.random().toString(36).substring(7)}`
UniqueIds == {"1730000000000-k3x9a"}

\* the content-type header of the download: absent, or its text
HeaderContentTypes ==
    { Null, Some("audio/mpeg"), Some("Audio/MPEG; charset=binary"),
      Some("video/mp4"), Some("application/octet-stream") }

ErrorMessages == {"Request failed with status code 404"}

\* provider usage counters of one chat completion
Usages ==
    { [prompt_tokens |-> t, completion_tokens |-> t, total_tokens |-> t + t] :
        t \in 1..MaxTokens }

SentimentJSON ==
    "{\"sentiment\":\"positive\",\"confidence\":0.9,\"emotions\":[\"joy\"],\"summary\":\"upbeat\"}"

\* JSON.parse on the reply texts considered; confidence is kept in hundredths
JSONparse(text) ==
    CASE text = SentimentJSON ->
            Return([sentiment  |-> Some("positive"),
                    confidence |-> Some(90),
                    emotions   |-> Some(<<"joy">>),
                    summary    |-> Some("upbeat")])
      [] text = "{}" -> Return(<<>>)
      [] OTHER -> Throw("Unexpected token in JSON")

\* what openai.chat.completions.create answers: a rejection, or a message
\* content (Null for a null content) with usage counters
ChatReplies(contents) ==
    { [kind |-> "error", content |-> Null, usage |-> u] : u \in Usages }
    \cup { [kind |-> "ok", content |-> c, usage |-> u] : c \in contents, u \in Usages }

SentimentReplies ==
    ChatReplies({Some(SentimentJSON), Some("{}"), Some("I cannot analyze this.")})

SummaryReplies == ChatReplies({Some("  The speaker greets the world.\n"), Null})

\* transcription.text of a successful Whisper call (Null: no text field)
TranscriptTexts == {Some("hello  world"), Null}

-----------------------------------------------------------------------------
(* The temp area *)

EmptyDisk == [p \in {} |-> 0]

Exists(d, p) == p \in DOMAIN d

WriteFile(d, p, size) == [q \in (DOMAIN d) \cup {p} |-> IF q = p THEN size ELSE d[q]]

Unlink(d, p) == [q \in (DOMAIN d) \ {p} |-> d[q]]

\* createTempPaths with the unique id drawn
createTempPaths(uniqueId) ==
    [inputPath  |-> "/tmp" \o "/" \o "input-" \o uniqueId \o ".webm",
     outputPath |-> "/tmp" \o "/" \o "output-" \o uniqueId \o ".mp3"]

RECURSIVE cleanupFiles(_, _, _)
RECURSIVE cleanupFilesStopAtFailure(_, _, _)
RECURSIVE cleanupFilesWithoutExistsTest(_, _, _)

\* a cleanup whose loop ends at the first unlinkSync that throws
cleanupFilesStopAtFailure(filePaths, d, failing) ==
    IF filePaths = <<>> THEN [disk |-> d, cleanedFiles |-> <<>>]
    ELSE LET p   == Head(filePaths)
             hit == Truthy(p) /\ Exists(d, Val(p))
         IN  IF hit /\ Val(p) \in failing
             THEN [disk |-> d, cleanedFiles |-> <<[path |-> Val(p), cleaned |-> FALSE]>>]
             ELSE LET d1   == IF hit THEN Unlink(d, Val(p)) ELSE d
                      rest == cleanupFilesStopAtFailure(Tail(filePaths), d1, failing)
                  IN  [disk |-> rest.disk,
                       cleanedFiles |->
                           IF hit
                           THEN <<[path |-> Val(p), cleaned |-> TRUE]>> \o rest.cleanedFiles
                           ELSE rest.cleanedFiles]

\* a cleanup that does not test existsSync: the unlinkSync of a missing file
\* throws and is recorded
cleanupFilesWithoutExistsTest(filePaths, d, failing) ==
    IF filePaths = <<>> THEN [disk |-> d, cleanedFiles |-> <<>>]
    ELSE LET p    == Head(filePaths)
             hit  == Truthy(p)
             ok   == hit /\ Exists(d, Val(p)) /\ Val(p) \notin failing
             d1   == IF ok THEN Unlink(d, Val(p)) ELSE d
             rest == cleanupFilesWithoutExistsTest(Tail(filePaths), d1, failing)
         IN  [disk |-> rest.disk,
              cleanedFiles |->
                  IF hit
                  THEN <<[path |-> Val(p), cleaned |-> ok]>> \o rest.cleanedFiles
                  ELSE rest.cleanedFiles]

\* cleanupFiles(filePaths) on disk d; `failing` are the paths whose unlinkSync
\* throws.  Gives the disk afterwards and the cleanedFiles list.
cleanupFiles(filePaths, d, failing) ==
    IF filePaths = <<>> THEN [disk |-> d, cleanedFiles |-> <<>>]
    ELSE LET p    == Head(filePaths)
             hit  == Truthy(p) /\ Exists(d, Val(p))
             ok   == hit /\ Val(p) \notin failing
             d1   == IF ok THEN Unlink(d, Val(p)) ELSE d
             rest == cleanupFiles(Tail(filePaths), d1, failing)
         IN  [disk |-> rest.disk,
              cleanedFiles |->
                  IF hit
                  THEN <<[path |-> Val(p), cleaned |-> ok]>> \o rest.cleanedFiles
                  ELSE rest.cleanedFiles]

\* validateFileSize(filePath) on disk d (statSync throws on a missing file;
\* the isNaN branch cannot be taken for a size that statSync returned)
validateFileSize(d, filePath) ==
    IF ~Exists(d, filePath) THEN Throw("ENOENT: no such file or directory")
    ELSE IF exceedsLimit(d[filePath])
         THEN Throw("Audio file is too large. Maximum size is 25MB.")
    ELSE Return([sizeBytes |-> d[filePath]])

-----------------------------------------------------------------------------
(* Provider calls *)

\* getOpenAIClient: the cached client, or a new one when the key is set
getOpenAIClient(client, key) ==
    IF client THEN Return(TRUE)
    ELSE IF ~key THEN Throw("OPENAI_API_KEY is not set.")
    ELSE Return(TRUE)

tokenUsageOf(usage) ==
    [promptTokens     |-> usage.prompt_tokens,
     completionTokens |-> usage.completion_tokens,
     totalTokens      |-> usage.total_tokens]

ZeroTokenUsage == [promptTokens |-> 0, completionTokens |-> 0, totalTokens |-> 0]

\* transcribeAudio's result for transcription.text = t
transcriptionOf(t) ==
    LET text == IF Truthy(t) THEN Val(t) ELSE ""
    IN  [text |-> text, length |-> Len(text), wordCount |-> wordCount(text)]

SentimentFallbackSummary == "Sentiment analysis could not be completed"

\* the object analyzeSentiment starts from
sentimentInitial ==
    [sentiment  |-> Null,
     confidence |-> Null,
     emotions   |-> Some(<<>>),
     summary    |-> Null,
     tokenUsage |-> Some(ZeroTokenUsage),
     error      |-> Some(FALSE)]

\* the catch block of analyzeSentiment applied to result
sentimentCatch(result) ==
    [result EXCEPT !.error      = Some(TRUE),
                   !.sentiment  = Some("neutral"),
                   !.confidence = Some(0),
                   !.emotions   = Some(<<>>),
                   !.summary    = Some(SentimentFallbackSummary)]

\* analyzeSentiment with JSON.parse moved out of the try block: a reply that is
\* not JSON is thrown to the caller
analyzeSentimentParseUnguarded(text, client, reply) ==
    IF client.threw \/ reply.kind = "error"
    THEN Return(sentimentCatch(sentimentInitial))
    ELSE LET sentimentData ==
                 IF reply.content = Null THEN Return(<<>>)
                 ELSE JSONparse(Val(reply.content))
         IN  IF sentimentData.threw
             THEN Throw(sentimentData.value)
             ELSE Return(Spread(sentimentData.value,
                                [tokenUsage |-> Some(tokenUsageOf(reply.usage))]))

\* analyzeSentiment(text) given whether the client could be obtained and what
\* the provider answered (processingTime is left out of the result)
analyzeSentiment(text, client, reply) ==
    IF client.threw \/ reply.kind = "error"
    THEN Return(sentimentCatch(sentimentInitial))
    ELSE LET sentimentData ==
                 \* JSON.parse(null) is null, and { ...null } is {}
                 IF reply.content = Null THEN Return(<<>>)
                 ELSE JSONparse(Val(reply.content))
         IN  IF sentimentData.threw
             THEN Return(sentimentCatch(sentimentInitial))
             ELSE Return(Spread(sentimentData.value,
                                [tokenUsage |-> Some(tokenUsageOf(reply.usage))]))

SummaryFallback == "Summarization could not be completed due to an error."

summaryInitial ==
    [summary    |-> Some(""),
     tokenUsage |-> Some(ZeroTokenUsage),
     error      |-> Some(FALSE)]

\* the catch block of generateSummary applied to result
summaryCatch(result) ==
    [result EXCEPT !.error = Some(TRUE), !.summary = Some(SummaryFallback)]

\* generateSummary without its try/catch: a provider failure is thrown
generateSummaryUnguarded(text, client, reply) ==
    IF client.threw \/ reply.kind = "error" \/ reply.content = Null
    THEN Throw("Connection error.")
    ELSE Return([summaryInitial EXCEPT
                    !.summary    = Some(trim(Val(reply.content))),
                    !.tokenUsage = Some(tokenUsageOf(reply.usage))])

\* generateSummary(text, customPrompt)
generateSummary(text, client, reply) ==
    IF client.threw \/ reply.kind = "error" \/ reply.content = Null
    THEN Return(summaryCatch(summaryInitial))
    ELSE Return([summaryInitial EXCEPT
                    !.summary    = Some(trim(Val(reply.content))),
                    !.tokenUsage = Some(tokenUsageOf(reply.usage))])

-----------------------------------------------------------------------------
(* The POST /api/transcribe handler *)

NoOutcomes ==
    [download   |-> "none",   \* "rejected", "finished", "writeError", "sourceError"
     header     |-> Null,     \* content-type header of the download
     extract    |-> "none",   \* "failed", "ok"
     transcribe |-> "none",   \* "failed", "ok"
     text       |-> Null,     \* transcription.text of the Whisper answer
     sentiment  |-> Null,     \* Some(reply of the provider)
     summary    |-> Null]     \* Some(reply of the provider)

Event(op, path, size) == [op |-> op, path |-> path, size |-> size]

\* the paths of the request that exist on disk d: the ones an unlink can fail on
TempPathsOn(d) == {p \in tempInputPath \cup tempOutputPath : Exists(d, p)}

\* the events of one cleanupFiles call
CleanupEvents(cleanedFiles) ==
    <<Event("cleanupFiles", "", 0)>> \o
    [i \in 1..Len(cleanedFiles) |-> Event("unlinkSync", cleanedFiles[i].path, 0)]

FailedPaths(cleanedFiles) ==
    {cleanedFiles[i].path : i \in {j \in 1..Len(cleanedFiles) : ~cleanedFiles[j].cleaned}}

\* a handler that answers the same request a second time
RespondAgain(status, body) ==
    /\ responses' = responses \o <<[status |-> status, body |-> body],
                                   [status |-> status, body |-> body]>>
    /\ pc' = "responded"

\* res.status(status).json(body)
Respond(status, body) ==
    /\ responses' = Append(responses, [status |-> status, body |-> body])
    /\ pc' = "responded"

\* a catch block that answers without cleaning up
CatchWithoutCleanup(stage, msg, d, callsSoFar, failing) ==
    /\ disk' = d
    /\ unlinkFailed' = unlinkFailed
    /\ calls' = callsSoFar
    /\ thrownBy' = stage
    /\ Respond(500, [error   |-> "Failed to transcribe audio",
                     message |-> IF msg = "" THEN "Unknown error occurred" ELSE msg,
                     url     |-> url])

\* the handler's catch block for an error of `stage` with message msg, on disk d,
\* after the helper calls callsSoFar
Catch(stage, msg, d, callsSoFar, failing) ==
    LET errorFilesToCleanup ==
            \* [tempInputPath, tempOutputPath].filter(Boolean)
            SelectSeq(<<tempInputPath, tempOutputPath>>, LAMBDA p : Truthy(p))
        cleaned == cleanupFiles(errorFilesToCleanup, d, failing)
        errorMessage == IF msg = "" THEN "Unknown error occurred" ELSE msg
    IN  /\ disk' = cleaned.disk
        /\ unlinkFailed' = unlinkFailed \cup FailedPaths(cleaned.cleanedFiles)
        /\ calls' = callsSoFar \o CleanupEvents(cleaned.cleanedFiles)
        /\ thrownBy' = stage
        /\ Respond(500, [error   |-> "Failed to transcribe audio",
                         message |-> errorMessage,
                         url     |-> url])

\* transcribeAudio(audioFilePath) up to its await: the client is obtained and
\* the upload of the file at path starts
StartTranscription(path, d, callsSoFar) ==
    LET client == getOpenAIClient(openaiClient, apiKey)
        c1     == Append(callsSoFar, Event("transcribeAudio", path, d[path]))
    IN  IF client.threw
        THEN /\ \E failing \in SUBSET TempPathsOn(d) :
                    Catch("transcribeAudio", client.value, d, c1, failing)
             /\ UNCHANGED openaiClient
        ELSE /\ openaiClient' = TRUE
             /\ disk' = d
             /\ calls' = c1
             /\ pc' = "transcribing"
             /\ UNCHANGED <<thrownBy, unlinkFailed, responses>>

\* a validation that accepts the empty string
urlIsInvalidTypeOnly(u) ==
    u.t # "string"

\* !url || typeof url !== "string"
urlIsInvalid(u) ==
    \/ u.t = "undefined"
    \/ (u.t = "string" /\ u.v = "")
    \/ u.t # "string"

\* a credential test that never reports the key missing
apiKeyNeverMissing(key) ==
    FALSE

\* !process.env.OPENAI_API_KEY
apiKeyNotConfigured(key) ==
    ~key

\* the request arrives: validation, temp paths, and the download is started
Receive ==
    /\ pc = "idle"
    /\ \E u \in UrlInputs, uniqueId \in UniqueIds :
        /\ url' = u
        /\ IF urlIsInvalid(u)
           THEN /\ Respond(400, [error |-> "URL is required and must be a string"])
                /\ UNCHANGED <<tempInputPath, tempOutputPath, calls>>
           ELSE IF apiKeyNotConfigured(apiKey)
           THEN /\ Respond(500, [error |-> "Server configuration error: OpenAI API key not set"])
                /\ UNCHANGED <<tempInputPath, tempOutputPath, calls>>
           ELSE LET paths == createTempPaths(uniqueId)
                IN  /\ tempInputPath' = Some(paths.inputPath)
                    /\ tempOutputPath' = Some(paths.outputPath)
                    /\ calls' = <<Event("createTempPaths", "", 0),
                                  Event("downloadFile", paths.inputPath, 0)>>
                    /\ pc' = "requesting"
                    /\ UNCHANGED responses
    /\ UNCHANGED <<contentType, fileIsAudio, audioFilePath, extractionTime,
                   outputSizeBytes, transcriptionResult, sentimentResult,
                   summaryResult, outcomes, thrownBy, unlinkFailed>>
    /\ UNCHANGED <<procVars, harnessVars>>

\* downloadFile: axios answers with the response headers; the write stream is
\* opened on the input path and the body is piped into it
DownloadResponse ==
    /\ pc = "requesting"
    /\ \E header \in HeaderContentTypes :
        outcomes' = [outcomes EXCEPT !.header = header]
    /\ disk' = WriteFile(disk, Val(tempInputPath), 0)
    /\ pc' = "streaming"
    /\ UNCHANGED <<url, tempInputPath, tempOutputPath, contentType, fileIsAudio,
                   audioFilePath, extractionTime, outputSizeBytes,
                   transcriptionResult, sentimentResult, summaryResult, responses,
                   calls, thrownBy, unlinkFailed>>
    /\ UNCHANGED <<apiKey, ffmpegPath, openaiClient, harnessVars>>

\* downloadFile: axios rejects (network error, timeout, error status)
DownloadReject ==
    /\ pc = "requesting"
    /\ \E msg \in ErrorMessages, failing \in SUBSET TempPathsOn(disk) :
        Catch("download", msg, disk, calls, failing)
    /\ outcomes' = [outcomes EXCEPT !.download = "rejected"]
    /\ UNCHANGED <<url, tempInputPath, tempOutputPath, contentType, fileIsAudio,
                   audioFilePath, extractionTime, outputSizeBytes,
                   transcriptionResult, sentimentResult, summaryResult>>
    /\ UNCHANGED <<apiKey, ffmpegPath, openaiClient, harnessVars>>

\* downloadFile: the write stream reports an error
DownloadWriteError ==
    /\ pc = "streaming"
    /\ \E msg \in ErrorMessages, failing \in SUBSET TempPathsOn(disk) :
        Catch("download", msg, disk, calls, failing)
    /\ outcomes' = [outcomes EXCEPT !.download = "writeError"]
    /\ UNCHANGED <<url, tempInputPath, tempOutputPath, contentType, fileIsAudio,
                   audioFilePath, extractionTime, outputSizeBytes,
                   transcriptionResult, sentimentResult, summaryResult>>
    /\ UNCHANGED <<apiKey, ffmpegPath, openaiClient, harnessVars>>

\* downloadFile: the source stream errors while it is piped: pipe() does not
\* end or fail the writer, so neither "finish" nor "error" is ever emitted
DownloadSourceError ==
    /\ pc = "streaming"
    /\ pc' = "stalled"
    /\ outcomes' = [outcomes EXCEPT !.download = "sourceError"]
    /\ UNCHANGED <<url, tempInputPath, tempOutputPath, contentType, fileIsAudio,
                   audioFilePath, extractionTime, outputSizeBytes,
                   transcriptionResult, sentimentResult, summaryResult, responses,
                   calls, thrownBy, unlinkFailed>>
    /\ UNCHANGED <<procVars, harnessVars>>

\* a handler that requires the transcoding tool before it looks at the file kind
DownloadFinishToolFirst ==
    /\ pc = "streaming"
    /\ \E size \in Sizes :
        LET in      == Val(tempInputPath)
            d       == WriteFile(disk, in, size)
            ct      == IF Truthy(outcomes.header) THEN outcomes.header ELSE Null
            isAudio == isAudioFile(in, ct)
            c0      == Append(calls, Event("isAudioFile", in, size))
        IN  /\ contentType' = ct
            /\ fileIsAudio' = Some(isAudio)
            /\ audioFilePath' = Some(in)
            /\ IF ffmpegPath = Null
               THEN /\ \E failing \in SUBSET TempPathsOn(d) :
                           Catch("ffmpeg", "FFmpeg is not installed or not found.",
                                 d, c0, failing)
                    /\ outputSizeBytes' = size
                    /\ UNCHANGED openaiClient
               ELSE IF isAudio
               THEN LET validationResult == validateFileSize(d, in)
                        c1 == Append(c0, Event("validateFileSize", in, size))
                    IN  IF validationResult.threw
                        THEN /\ \E failing \in SUBSET TempPathsOn(d) :
                                    Catch("validateFileSize", validationResult.value,
                                          d, c1, failing)
                             /\ outputSizeBytes' = size
                             /\ UNCHANGED openaiClient
                        ELSE /\ outputSizeBytes' = validationResult.value.sizeBytes
                             /\ StartTranscription(in, d, c1)
               ELSE IF ffmpegPath = Null
               THEN /\ \E failing \in SUBSET TempPathsOn(d) :
                           Catch("ffmpeg", "FFmpeg is not installed or not found.",
                                 d, c0, failing)
                    /\ outputSizeBytes' = size
                    /\ UNCHANGED openaiClient
               ELSE /\ disk' = d
                    /\ calls' = Append(c0, Event("extractAudioFromVideo", in, size))
                    /\ pc' = "extracting"
                    /\ outputSizeBytes' = size
                    /\ UNCHANGED <<openaiClient, thrownBy, unlinkFailed, responses>>
    /\ outcomes' = [outcomes EXCEPT !.download = "finished"]
    /\ UNCHANGED <<url, tempInputPath, tempOutputPath, extractionTime,
                   transcriptionResult, sentimentResult, summaryResult>>
    /\ UNCHANGED <<apiKey, ffmpegPath, harnessVars>>

\* downloadFile completes ("finish"); the handler classifies the file, and
\* either validates it and starts the transcription, or starts the extraction
DownloadFinish ==
    /\ pc = "streaming"
    /\ \E size \in Sizes :
        LET in      == Val(tempInputPath)
            d       == WriteFile(disk, in, size)
            ct      == IF Truthy(outcomes.header) THEN outcomes.header ELSE Null
            isAudio == isAudioFile(in, ct)
            c0      == Append(calls, Event("isAudioFile", in, size))
        IN  /\ contentType' = ct
            /\ fileIsAudio' = Some(isAudio)
            /\ audioFilePath' = Some(in)
            /\ IF isAudio
               THEN LET validationResult == validateFileSize(d, in)
                        c1 == Append(c0, Event("validateFileSize", in, size))
                    IN  IF validationResult.threw
                        THEN /\ \E failing \in SUBSET TempPathsOn(d) :
                                    Catch("validateFileSize", validationResult.value,
                                          d, c1, failing)
                             /\ outputSizeBytes' = size
                             /\ UNCHANGED openaiClient
                        ELSE /\ outputSizeBytes' = validationResult.value.sizeBytes
                             /\ StartTranscription(in, d, c1)
               ELSE IF ffmpegPath = Null
               THEN /\ \E failing \in SUBSET TempPathsOn(d) :
                           Catch("ffmpeg", "FFmpeg is not installed or not found.",
                                 d, c0, failing)
                    /\ outputSizeBytes' = size
                    /\ UNCHANGED openaiClient
               ELSE /\ disk' = d
                    /\ calls' = Append(c0, Event("extractAudioFromVideo", in, size))
                    /\ pc' = "extracting"
                    /\ outputSizeBytes' = size
                    /\ UNCHANGED <<openaiClient, thrownBy, unlinkFailed, responses>>
    /\ outcomes' = [outcomes EXCEPT !.download = "finished"]
    /\ UNCHANGED <<url, tempInputPath, tempOutputPath, extractionTime,
                   transcriptionResult, sentimentResult, summaryResult>>
    /\ UNCHANGED <<apiKey, ffmpegPath, harnessVars>>

\* an extraction after which the downloaded file is transcribed all the same
ExtractResolveKeepsInput ==
    /\ pc = "extracting"
    /\ \E size \in Sizes, elapsed \in Elapsed :
        LET out == Val(tempOutputPath)
            d   == WriteFile(disk, out, size)
        IN  /\ extractionTime' = elapsed
            /\ outputSizeBytes' = size
            /\ UNCHANGED audioFilePath
            /\ StartTranscription(Val(tempInputPath), d, calls)
    /\ outcomes' = [outcomes EXCEPT !.extract = "ok"]
    /\ UNCHANGED <<url, tempInputPath, tempOutputPath, contentType, fileIsAudio,
                   transcriptionResult, sentimentResult, summaryResult>>
    /\ UNCHANGED <<apiKey, ffmpegPath, harnessVars>>

\* extractAudioFromVideo completes: the mp3 is at the output path; the handler
\* takes it as the audio file and starts the transcription
ExtractResolve ==
    /\ pc = "extracting"
    /\ \E size \in Sizes, elapsed \in Elapsed :
        LET out == Val(tempOutputPath)
            d   == WriteFile(disk, out, size)
        IN  /\ extractionTime' = elapsed
            /\ outputSizeBytes' = size
            /\ audioFilePath' = Some(out)
            /\ StartTranscription(out, d, calls)
    /\ outcomes' = [outcomes EXCEPT !.extract = "ok"]
    /\ UNCHANGED <<url, tempInputPath, tempOutputPath, contentType, fileIsAudio,
                   transcriptionResult, sentimentResult, summaryResult>>
    /\ UNCHANGED <<apiKey, ffmpegPath, harnessVars>>

\* an extraction failure after which the downloaded file is transcribed as is
ExtractRejectFallsBack ==
    /\ pc = "extracting"
    /\ StartTranscription(Val(tempInputPath), disk, calls)
    /\ outcomes' = [outcomes EXCEPT !.extract = "failed"]
    /\ UNCHANGED <<url, tempInputPath, tempOutputPath, contentType, fileIsAudio,
                   audioFilePath, extractionTime, outputSizeBytes,
                   transcriptionResult, sentimentResult, summaryResult>>
    /\ UNCHANGED <<apiKey, ffmpegPath, harnessVars>>

\* extractAudioFromVideo fails (ffmpeg exits with an error); a partial output
\* file may have been left
ExtractReject ==
    /\ pc = "extracting"
    /\ \E partial \in BOOLEAN :
        LET d == IF partial THEN WriteFile(disk, Val(tempOutputPath), 0) ELSE disk
        IN  \E failing \in SUBSET TempPathsOn(d) :
                Catch("extractAudioFromVideo", "ffmpeg exited with code 1", d, calls, failing)
    /\ outcomes' = [outcomes EXCEPT !.extract = "failed"]
    /\ UNCHANGED <<url, tempInputPath, tempOutputPath, contentType, fileIsAudio,
                   audioFilePath, extractionTime, outputSizeBytes,
                   transcriptionResult, sentimentResult, summaryResult>>
    /\ UNCHANGED <<apiKey, ffmpegPath, openaiClient, harnessVars>>

\* the success path cleaning the downloaded file only
filesToCleanupInputOnly == <<tempInputPath>>

\* the files the success path hands to cleanupFiles
filesToCleanup ==
    IF Val(fileIsAudio) THEN <<tempInputPath>> ELSE <<tempInputPath, tempOutputPath>>

\* a handler that deletes the temp files as soon as the transcript is there,
\* before the sentiment and summary stages
TranscribeResolveCleansFirst ==
    /\ pc = "transcribing"
    /\ \E t \in TranscriptTexts :
        /\ transcriptionResult' = Some(transcriptionOf(t))
        /\ outcomes' = [outcomes EXCEPT !.transcribe = "ok", !.text = t]
    /\ LET cleaned == cleanupFiles(filesToCleanup, disk, {})
       IN  /\ disk' = cleaned.disk
           /\ calls' = Append(calls \o CleanupEvents(cleaned.cleanedFiles),
                              Event("analyzeSentiment", "", 0))
    /\ pc' = "sentiment"
    /\ UNCHANGED <<url, tempInputPath, tempOutputPath, contentType, fileIsAudio,
                   audioFilePath, extractionTime, outputSizeBytes,
                   sentimentResult, summaryResult, responses, thrownBy, unlinkFailed>>
    /\ UNCHANGED <<apiKey, ffmpegPath, openaiClient, harnessVars>>

\* transcribeAudio completes; the handler calls analyzeSentiment
TranscribeResolve ==
    /\ pc = "transcribing"
    /\ \E t \in TranscriptTexts :
        /\ transcriptionResult' = Some(transcriptionOf(t))
        /\ outcomes' = [outcomes EXCEPT !.transcribe = "ok", !.text = t]
    /\ calls' = Append(calls, Event("analyzeSentiment", "", 0))
    /\ pc' = "sentiment"
    /\ UNCHANGED <<url, tempInputPath, tempOutputPath, contentType, fileIsAudio,
                   audioFilePath, extractionTime, outputSizeBytes,
                   sentimentResult, summaryResult, responses, thrownBy, unlinkFailed>>
    /\ UNCHANGED <<procVars, harnessVars>>

\* a handler that calls transcribeAudio again when the Whisper call fails
TranscribeRejectRetries ==
    /\ pc = "transcribing"
    /\ StartTranscription(Val(audioFilePath), disk, calls)
    /\ outcomes' = [outcomes EXCEPT !.transcribe = "failed"]
    /\ UNCHANGED <<url, tempInputPath, tempOutputPath, contentType, fileIsAudio,
                   audioFilePath, extractionTime, outputSizeBytes,
                   transcriptionResult, sentimentResult, summaryResult>>
    /\ UNCHANGED <<apiKey, ffmpegPath, harnessVars>>

\* the Whisper call fails: transcribeAudio rejects
TranscribeReject ==
    /\ pc = "transcribing"
    /\ \E failing \in SUBSET TempPathsOn(disk) :
        Catch("transcribeAudio", "Connection error.", disk, calls, failing)
    /\ outcomes' = [outcomes EXCEPT !.transcribe = "failed"]
    /\ UNCHANGED <<url, tempInputPath, tempOutputPath, contentType, fileIsAudio,
                   audioFilePath, extractionTime, outputSizeBytes,
                   transcriptionResult, sentimentResult, summaryResult>>
    /\ UNCHANGED <<apiKey, ffmpegPath, openaiClient, harnessVars>>

\* analyzeSentiment completes; the handler calls generateSummary
SentimentResolve ==
    /\ pc = "sentiment"
    /\ \E reply \in SentimentReplies :
        LET r == analyzeSentiment(Val(transcriptionResult).text,
                                  getOpenAIClient(openaiClient, apiKey), reply)
        IN  /\ outcomes' = [outcomes EXCEPT !.sentiment = Some(reply)]
            /\ IF r.threw
               THEN /\ \E failing \in SUBSET TempPathsOn(disk) :
                           Catch("analyzeSentiment", r.value, disk, calls, failing)
                    /\ UNCHANGED sentimentResult
               ELSE /\ sentimentResult' = Some(r.value)
                    /\ calls' = Append(calls, Event("generateSummary", "", 0))
                    /\ pc' = "summarizing"
                    /\ UNCHANGED <<disk, responses, thrownBy, unlinkFailed>>
    /\ UNCHANGED <<url, tempInputPath, tempOutputPath, contentType, fileIsAudio,
                   audioFilePath, extractionTime, outputSizeBytes,
                   transcriptionResult, summaryResult>>
    /\ UNCHANGED <<apiKey, ffmpegPath, openaiClient, harnessVars>>

\* x || false
OrFalse(m) == IF m = Null \/ m = Some(FALSE) THEN FALSE ELSE Val(m)

\* the field-wise sum the handler builds as totalTokenUsage.total
totalTokenUsage(a, b) ==
    [promptTokens     |-> a.promptTokens + b.promptTokens,
     completionTokens |-> a.completionTokens + b.completionTokens,
     totalTokens      |-> a.totalTokens + b.totalTokens]

\* the body of the 200 response (the timings other than extraction and the
\* Whisper estimate are left out)
SuccessBody(sentimentRes, summaryRes) ==
    [url           |-> url,
     transcription |-> Val(transcriptionResult).text,
     sentiment     |-> [sentiment  |-> Get(sentimentRes, "sentiment"),
                        confidence |-> Get(sentimentRes, "confidence"),
                        emotions   |-> Get(sentimentRes, "emotions"),
                        summary    |-> Get(sentimentRes, "summary"),
                        error      |-> OrFalse(Get(sentimentRes, "error")),
                        tokenUsage |-> Get(sentimentRes, "tokenUsage")],
     summary       |-> Get(summaryRes, "summary"),
     metadata      |-> [transcriptionLength |-> Val(transcriptionResult).length,
                        wordCount           |-> Val(transcriptionResult).wordCount,
                        processingTimes     |-> [extraction |-> extractionTime],
                        tokenUsage          |->
                            [sentiment     |-> Get(sentimentRes, "tokenUsage"),
                             summarization |-> Get(summaryRes, "tokenUsage"),
                             total         |->
                                 totalTokenUsage(Val(Get(sentimentRes, "tokenUsage")),
                                                 Val(Get(summaryRes, "tokenUsage")))],
                        fileWasAudio        |-> Val(fileIsAudio)]]

\* generateSummary completes; the handler cleans up and answers 200
SummaryResolve ==
    /\ pc = "summarizing"
    /\ \E reply \in SummaryReplies, failing \in SUBSET TempPathsOn(disk) :
        LET r == generateSummary(Val(transcriptionResult).text,
                                 getOpenAIClient(openaiClient, apiKey), reply)
        IN  /\ outcomes' = [outcomes EXCEPT !.summary = Some(reply)]
            /\ IF r.threw
               THEN /\ Catch("generateSummary", r.value, disk, calls, failing)
                    /\ UNCHANGED summaryResult
               ELSE LET cleaned == cleanupFiles(filesToCleanup, disk, failing)
                    IN  /\ summaryResult' = Some(r.value)
                        /\ disk' = cleaned.disk
                        /\ unlinkFailed' =
                               unlinkFailed \cup FailedPaths(cleaned.cleanedFiles)
                        /\ calls' = calls \o CleanupEvents(cleaned.cleanedFiles)
                        /\ Respond(200, SuccessBody(Val(sentimentResult), r.value))
                        /\ UNCHANGED thrownBy
    /\ UNCHANGED <<url, tempInputPath, tempOutputPath, contentType, fileIsAudio,
                   audioFilePath, extractionTime, outputSizeBytes,
                   transcriptionResult, sentimentResult>>
    /\ UNCHANGED <<apiKey, ffmpegPath, openaiClient, harnessVars>>

-----------------------------------------------------------------------------
(* Specification of the handler *)

InitClassifierIdle ==
    /\ clPath = ""
    /\ clType = Null
    /\ clVariant = "none"
    /\ clResult = Null

InitCleanupIdle ==
    /\ cuPaths = <<>>
    /\ cuRuns = <<>>

InitAggregateIdle ==
    /\ agInput = <<>>
    /\ agResult = Null

\* largest number of requests in flight at once
MaxRequests == 2

Requests == 1..MaxRequests

InitClientIdle ==
    /\ gcEnv = Null
    /\ gcClient = Null
    /\ gcBuilt = 0
    /\ gcCalls = <<>>

InitPathsIdle ==
    /\ rqNow = 0
    /\ rqStage = [r \in Requests |-> "idle"]
    /\ rqPaths = [r \in Requests |-> Null]
    /\ rqFiles = EmptyDisk

InitVideoIdle ==
    /\ vpc = "idle"
    /\ options = [intervalSeconds |-> 5, maxFrames |-> 6]
    /\ tempDir = Null
    /\ probeOutcome = "none"
    /\ videoDuration = Null
    /\ framePaths = <<>>
    /\ extractPromises = <<>>
    /\ extracted = Null
    /\ frameIndex = 0
    /\ visionCalls = <<>>
    /\ visionFailed = {}
    /\ summaryReply = Null
    /\ frameAnalyses = <<>>
    /\ analysis = Null

InitRequest ==
    /\ pc = "idle"
    /\ url = [t |-> "undefined", v |-> ""]
    /\ tempInputPath = Null
    /\ tempOutputPath = Null
    /\ contentType = Null
    /\ fileIsAudio = Null
    /\ audioFilePath = Null
    /\ extractionTime = 0
    /\ outputSizeBytes = 0
    /\ transcriptionResult = Null
    /\ sentimentResult = Null
    /\ summaryResult = Null
    /\ responses = <<>>
    /\ calls = <<>>
    /\ outcomes = NoOutcomes
    /\ thrownBy = "none"
    /\ unlinkFailed = {}

Init ==
    /\ apiKey \in BOOLEAN
    /\ ffmpegPath \in {Null, Some("/usr/bin/ffmpeg")}
    /\ openaiClient = FALSE
    /\ disk = EmptyDisk
    /\ InitRequest
    /\ InitClassifierIdle
    /\ InitCleanupIdle
    /\ InitVideoIdle
    /\ InitAggregateIdle
    /\ InitClientIdle
    /\ InitPathsIdle

Next ==
    \/ Receive
    \/ DownloadResponse
    \/ DownloadReject
    \/ DownloadWriteError
    \/ DownloadSourceError
    \/ DownloadFinish
    \/ ExtractResolve
    \/ ExtractReject
    \/ TranscribeResolve
    \/ TranscribeReject
    \/ SentimentResolve
    \/ SummaryResolve

Spec == Init /\ [][Next]_vars

-----------------------------------------------------------------------------
(* Specification of the classifier alone *)

ClassifierPaths ==
    { "/tmp/a.mp3", "/tmp/a.MP3", "/tmp/a.mpga", "/tmp/a.m4a", "/tmp/a.wav",
      "/tmp/a.ogg", "/tmp/a.flac", "/tmp/a.aac",
      "/tmp/a.mp4", "/tmp/a.mpeg", "/tmp/a.webm",
      "/tmp/a.mov", "/tmp/a.tar.gz", "/tmp/noext", "/tmp/.mp3", "/tmp.d/mp3",
      "/tmp/input-1730000000000-k3x9a.webm" }

ClassifierContentTypes ==
    {Null, Some("")}
    \cup {Some(t) : t \in audioMimeTypes \cup videoMimeTypes}
    \cup { Some("Video/MP4"), Some("video/mp4; codecs=avc1"), Some("AUDIO/MPEG"),
           Some("audio/mpeg; charset=binary"), Some("application/octet-stream"),
           Some("text/html"), Some("audio/x-wav"), Some("video/ogg") }

InitClassify ==
    /\ clPath \in ClassifierPaths
    /\ clType \in ClassifierContentTypes
    /\ clVariant = "none"
    /\ clResult = Null
    /\ apiKey = TRUE
    /\ ffmpegPath = Null
    /\ openaiClient = FALSE
    /\ disk = EmptyDisk
    /\ InitRequest
    /\ InitCleanupIdle
    /\ InitVideoIdle
    /\ InitAggregateIdle
    /\ InitClientIdle
    /\ InitPathsIdle

\* isAudioFile of the current audioUtils is applied
Classify ==
    /\ clVariant = "none"
    /\ clVariant' = "current"
    /\ clResult' = Some(isAudioFile(clPath, clType))
    /\ UNCHANGED <<clPath, clType, cuVars, videoVars, procVars, reqVars, histVars, agVars,
                 gcVars, rqVars>>

\* isAudioFile of the older audioUtils is applied
ClassifyLegacy ==
    /\ clVariant = "none"
    /\ clVariant' = "legacy"
    /\ clResult' = Some(isAudioFileLegacy(clPath, clType))
    /\ UNCHANGED <<clPath, clType, cuVars, videoVars, procVars, reqVars, histVars, agVars,
                 gcVars, rqVars>>

NextClassify == Classify \/ ClassifyLegacy

SpecClassify == InitClassify /\ [][NextClassify]_vars

-----------------------------------------------------------------------------
(* cleanupFiles on its own: repeated calls on the same paths *)

\* longest filePaths argument tried
MaxPaths == 3

\* number of consecutive cleanupFiles calls tried
MaxRuns == 2

CleanupPaths == {"/tmp/input-1.webm", "/tmp/output-1.mp3"}

\* the entries of a filePaths argument: null, or a path
CleanupEntries == {Null} \cup {Some(p) : p \in CleanupPaths}

\* the temp area holding the files of present
DiskWith(present) == [p \in present |-> 1]

InitCleanup ==
    /\ cuPaths \in UNION {[1..n -> CleanupEntries] : n \in 0..MaxPaths}
    /\ cuRuns = <<>>
    /\ disk \in {DiskWith(present) : present \in SUBSET CleanupPaths}
    /\ apiKey = TRUE
    /\ ffmpegPath = Null
    /\ openaiClient = FALSE
    /\ InitRequest
    /\ InitClassifierIdle
    /\ InitVideoIdle
    /\ InitAggregateIdle
    /\ InitClientIdle
    /\ InitPathsIdle

\* cleanupFiles(cuPaths) is called; the unlinkSync of the paths in failing throws
CleanupCall ==
    /\ Len(cuRuns) < MaxRuns
    /\ \E failing \in SUBSET {p \in CleanupPaths : Exists(disk, p)} :
        LET r == cleanupFiles(cuPaths, disk, failing)
        IN  /\ disk' = r.disk
            /\ cuRuns' = Append(cuRuns, [before       |-> disk,
                                         after        |-> r.disk,
                                         cleanedFiles |-> r.cleanedFiles])
    /\ UNCHANGED <<cuPaths, apiKey, ffmpegPath, openaiClient>>
    /\ UNCHANGED <<clVars, videoVars, reqVars, histVars, agVars,
                 gcVars, rqVars>>

NextCleanup == CleanupCall

SpecCleanup == InitCleanup /\ [][NextCleanup]_vars

-----------------------------------------------------------------------------
(* Frame sampling: extractFrames (utils/videoUtils.js) *)

\* JavaScript numbers: a whole number of seconds, NaN or Infinity
Num(n) == [k |-> "num", n |-> n]

NaN == [k |-> "nan", n |-> 0]

Infinity == [k |-> "inf", n |-> 0]

\* a metadata field holding text that is not a number ("N/A")
NotNumeric == [k |-> "str", n |-> 0]

\* Number(x) of a metadata field x: Null is undefined
Number(x) ==
    IF x = Null THEN NaN
    ELSE IF Val(x).k = "str" THEN NaN
    ELSE Val(x)

\* Number.isFinite
isFinite(v) == v.k = "num"

\* x || 0 on a number
OrZero(v) == IF v.k = "nan" \/ (v.k = "num" /\ v.n = 0) THEN Num(0) ELSE v

\* the duration the ffprobe callback resolves with
parsedDuration(metadata) ==
    LET formatDuration == Number(metadata.format)
        streamDuration == Number(metadata.stream)
        parsed == IF isFinite(formatDuration) THEN formatDuration
                  ELSE IF isFinite(streamDuration) THEN streamDuration
                  ELSE Num(0)
    IN  OrZero(parsed)

hasDuration(v) == isFinite(v) /\ v.n > 0

Min(a, b) == IF a <= b THEN a ELSE b

Max(a, b) == IF a >= b THEN a ELSE b

\* a rounding down of duration / interval
floorOfRatio(a, b) == a \div b

\* Math.ceil(a / b) for a > 0, b > 0
ceilOfRatio(a, b) == (a + b - 1) \div b

frameCountOf(v, intervalSeconds, maxFrames) ==
    IF hasDuration(v)
    THEN Min(maxFrames, Max(0, ceilOfRatio(v.n, intervalSeconds)))
    ELSE 1

\* the for loop of extractFrames from index i on: the frames it pushes
RECURSIVE extractLoop(_, _, _, _)
extractLoop(i, frameCount, v, intervalSeconds) ==
    IF i >= frameCount THEN <<>>
    ELSE LET timestamp == IF hasDuration(v) THEN i * intervalSeconds ELSE 0
         IN  IF hasDuration(v) /\ timestamp >= v.n THEN <<>>
             ELSE <<[index |-> i, timestamp |-> timestamp]>>
                  \o extractLoop(i + 1, frameCount, v, intervalSeconds)

\* a join that waits for every promise and never rejects
promiseAllSettled(promises) ==
    IF \E i \in 1..Len(promises) : promises[i] = "pending" THEN "pending"
    ELSE "resolved"

\* Promise.all over promises in the given states
promiseAll(promises) ==
    IF \E i \in 1..Len(promises) : promises[i] = "rejected" THEN "rejected"
    ELSE IF \E i \in 1..Len(promises) : promises[i] = "pending" THEN "pending"
    ELSE "resolved"

-----------------------------------------------------------------------------
(* aggregateFrameAnalyses (utils/videoUtils.js) *)

\* A frame analysis is the parsed JSON object of the vision answer: a function
\* from its keys (read with Get).  Numbers that may be fractions are kept as
\* exact ratios [num, den].

Range(seq) == {seq[i] : i \in 1..Len(seq)}

RECURSIVE Sum(_)
Sum(seq) == IF seq = <<>> THEN 0 ELSE Head(seq) + Sum(Tail(seq))

RECURSIVE Concat(_)
Concat(seqs) == IF seqs = <<>> THEN <<>> ELSE Head(seqs) \o Concat(Tail(seqs))

\* the first element instead of the smallest
firstOf(seq) == seq[1]

\* Math.min(...seq) of a non-empty list
MathMin(seq) == CHOOSE x \in Range(seq) : \A y \in Range(seq) : x <= y

\* Math.max(...seq) of a non-empty list
MathMax(seq) == CHOOSE x \in Range(seq) : \A y \in Range(seq) : x >= y

\* every element kept, repeated ones included
keepAll(seq) == seq

\* the iteration order of a Set filled from seq: first occurrences, in order
RECURSIVE unique(_)
unique(seq) ==
    IF seq = <<>> THEN <<>>
    ELSE LET init == unique(SubSeq(seq, 1, Len(seq) - 1))
             last == seq[Len(seq)]
         IN  IF last \in Range(init) THEN init ELSE Append(init, last)

\* fa.analysis?.people?.count || 0
countOrZero(fa) ==
    LET people == Get(fa.analysis, "people")
        count  == IF people = Null THEN Null ELSE Get(Val(people), "count")
    IN  IF count = Null THEN 0 ELSE Val(count)

\* peopleCounts: the filter after the map removes nothing, since the map has
\* already put 0 in the place of a missing or null count
peopleCountsOf(fas) ==
    LET mapped == [i \in 1..Len(fas) |-> Some(countOrZero(fas[i]))]
        kept   == SelectSeq(mapped, LAMBDA count : count # Null)
    IN  [i \in 1..Len(kept) |-> Val(kept[i])]

\* the values of an array field of each analysis, in frame order
arrayItems(fas, key) ==
    Concat([i \in 1..Len(fas) |->
               LET a == Get(fas[i].analysis, key)
               IN  IF a = Null THEN <<>> ELSE Val(a)])

\* allLocations: analysis.location.type || analysis.location.description of
\* each analysis that has a location (Null is undefined)
allLocationsOf(fas) ==
    Concat([i \in 1..Len(fas) |->
               LET location == Get(fas[i].analysis, "location")
               IN  IF location = Null THEN <<>>
                   ELSE LET type == Get(Val(location), "type")
                        IN  <<IF type # Null THEN type
                              ELSE Get(Val(location), "description")>>])

\* a value used as an object key
KeyOf(loc) == IF loc = Null THEN "undefined" ELSE Val(loc)

\* locationFrequency[key]: Null for a key the table lacks
locationFrequency(allLocations, key) ==
    LET hits == {i \in 1..Len(allLocations) : KeyOf(allLocations[i]) = key}
    IN  IF hits = {} THEN Null ELSE Some(Cardinality(hits))

\* keys.reduce((a, b) => locationFrequency[a] > locationFrequency[b] ? a : b, a)
RECURSIVE reduceMostCommon(_, _, _)
reduceMostCommon(keys, a, allLocations) ==
    IF keys = <<>> THEN a
    ELSE LET b  == Head(keys)
             fa == locationFrequency(allLocations, a)
             fb == locationFrequency(allLocations, b)
             \* undefined > n is false
             greater == fa # Null /\ fb # Null /\ Val(fa) > Val(fb)
         IN  reduceMostCommon(Tail(keys), IF greater THEN a ELSE b, allLocations)

\* an empty-list result whose average is computed as 0 / 0
aggregateOfNoneDivided ==
    [peopleCount   |-> [min |-> 0, max |-> 0, average |-> [num |-> 0, den |-> 0]],
     activities    |-> <<>>,
     locations     |-> [isArray |-> TRUE, all |-> <<>>, mostCommon |-> Null],
     commonObjects |-> <<>>,
     peopleDetails |-> Null]

\* the literal returned for an empty list: locations is an empty array and
\* there is no peopleDetails
aggregateOfNone ==
    [peopleCount   |-> [min |-> 0, max |-> 0, average |-> [num |-> 0, den |-> 1]],
     activities    |-> <<>>,
     locations     |-> [isArray |-> TRUE, all |-> <<>>, mostCommon |-> Null],
     commonObjects |-> <<>>,
     peopleDetails |-> Null]

aggregateFrameAnalyses(fas) ==
    IF Len(fas) = 0 THEN aggregateOfNone
    ELSE LET peopleCounts == peopleCountsOf(fas)
             allLocations == allLocationsOf(fas)
             keys         == unique([i \in 1..Len(allLocations) |->
                                        KeyOf(allLocations[i])])
             details      ==
                 Concat([i \in 1..Len(fas) |->
                            LET people == Get(fas[i].analysis, "people")
                                d == IF people = Null THEN Null
                                     ELSE Get(Val(people), "details")
                            IN  IF d = Null THEN <<>> ELSE Val(d)])
         IN  [peopleCount   |-> [min     |-> MathMin(peopleCounts),
                                 max     |-> MathMax(peopleCounts),
                                 average |-> [num |-> Sum(peopleCounts),
                                              den |-> Len(peopleCounts)]],
              activities    |-> unique(arrayItems(fas, "activities")),
              locations     |-> [isArray    |-> FALSE,
                                 all        |-> unique(allLocations),
                                 mostCommon |->
                                     Some(reduceMostCommon(keys, "unknown", allLocations))],
              commonObjects |-> unique(arrayItems(fas, "objects")),
              peopleDetails |-> Some(details)]

-----------------------------------------------------------------------------
(* analyzeVideoContent (utils/videoUtils.js): one call *)

\* longest duration tried besides the 37 s of the README example, in seconds
MaxDuration == 3

\* largest intervalSeconds tried besides the default 5
MaxInterval == 2

\* largest maxFrames tried besides the default 6
MaxFrames == 2

VideoDurations == ((0 - 1) .. MaxDuration) \cup {37}

\* what ffprobe reports: format.duration and the video stream's duration
ProbeMetadata ==
    { [format |-> Some(Num(d)), stream |-> Null] : d \in VideoDurations }
    \cup { [format |-> f, stream |-> g] :
               f \in {Null, Some(NotNumeric), Some(Infinity)},
               g \in {Null, Some(Num(2)), Some(Infinity)} }

VideoOptions ==
    [intervalSeconds : (1 .. MaxInterval) \cup {5},
     maxFrames       : (0 .. MaxFrames) \cup {6}]

VisionReplies == ChatReplies({Some("{}"), Some("I cannot analyze this.")})

VideoSummaryReplies == ChatReplies({Some("{}"), Some("I cannot summarize this.")})

\* the frame indexes whose grab is still running
PendingGrabs(promises) ==
    {framePaths[i].index : i \in {j \in 1..Len(promises) : promises[j] = "pending"}}

\* the finally block: readdirSync, unlinkSync of each file, rmdirSync.  `late`
\* are the frames a still running ffmpeg creates after readdirSync: rmdirSync
\* then throws, which is caught, and the directory stays with those files.
cleanupFramesDir(dir, late) ==
    IF dir = Null THEN Null
    ELSE IF late = {} THEN Null
    ELSE Some(late)

\* analyzeVideoContent leaves by an exception: the finally block runs
VideoThrow(msg, dir, promises) ==
    /\ \E late \in SUBSET PendingGrabs(promises) :
            tempDir' = cleanupFramesDir(dir, late)
    /\ analysis' = Some(Throw(msg))
    /\ vpc' = "thrown"

\* first loop index from i on whose frame file can be read (readFileSync
\* throws on a missing file, which the loop body catches)
RECURSIVE nextReadable(_, _, _)
nextReadable(i, paths, dir) ==
    IF i >= Len(paths) THEN Len(paths)
    ELSE IF dir # Null /\ paths[i + 1].index \in Val(dir) THEN i
    ELSE nextReadable(i + 1, paths, dir)

\* the analysis loop from index i on, with the analyses collected so far: up
\* to the next awaited vision call, or past the loop to the summary call
AnalyzeFrom(i, analyses) ==
    LET j == nextReadable(i, framePaths, tempDir)
    IN  /\ frameAnalyses' = analyses
        /\ frameIndex' = j
        /\ IF j < Len(framePaths)
           THEN /\ visionCalls' = Append(visionCalls, framePaths[j + 1].index)
                /\ vpc' = "analyzing"
           ELSE /\ vpc' = "summarizing"
                /\ UNCHANGED visionCalls

\* frameAnalyses.reduce((s, fa) => s + fa.tokenUsage[field], 0)
RECURSIVE reduceTokens(_, _)
reduceTokens(analyses, field) ==
    IF analyses = <<>> THEN 0
    ELSE Head(analyses).tokenUsage[field] + reduceTokens(Tail(analyses), field)

\* a total that leaves the summary call out
videoTokenUsageFramesOnly(analyses, summaryTokenUsage) ==
    LET frames == [f \in DOMAIN ZeroTokenUsage |-> reduceTokens(analyses, f)]
    IN  [frames |-> frames, summary |-> summaryTokenUsage, total |-> frames]

\* totalTokenUsage of analyzeVideoContent
videoTokenUsage(analyses, summaryTokenUsage) ==
    [frames  |-> [f \in DOMAIN ZeroTokenUsage |-> reduceTokens(analyses, f)],
     summary |-> summaryTokenUsage,
     total   |-> [f \in DOMAIN ZeroTokenUsage |->
                     reduceTokens(analyses, f) + summaryTokenUsage[f]]]

\* the result returned when no frame was extracted
EmptyVideoResult ==
    [summary            |-> Null,
     frameAnalyses      |-> <<>>,
     aggregatedAnalysis |-> aggregateFrameAnalyses(<<>>),
     metadata           |-> [framesAnalyzed  |-> 0,
                             intervalSeconds |-> options.intervalSeconds,
                             tokenUsage      |-> [frames  |-> ZeroTokenUsage,
                                                  summary |-> ZeroTokenUsage,
                                                  total   |-> ZeroTokenUsage]]]

\* the result returned after the summary call (processingTimeMs is left out)
VideoResult(summary, summaryTokenUsage, analyses) ==
    [summary            |-> summary,
     frameAnalyses      |-> analyses,
     aggregatedAnalysis |-> aggregateFrameAnalyses(analyses),
     metadata           |-> [framesAnalyzed  |-> Len(analyses),
                             intervalSeconds |-> options.intervalSeconds,
                             tokenUsage      |-> videoTokenUsage(analyses,
                                                                 summaryTokenUsage)]]

\* analyzeVideoContent is called: the frames directory is created and
\* extractFrames starts ffprobe
AnalyzeStart ==
    /\ UNCHANGED <<visionFailed, summaryReply>>
    /\ vpc = "idle"
    /\ \E o \in VideoOptions : options' = o
    /\ tempDir' = Some({})
    /\ vpc' = "probing"
    /\ UNCHANGED <<probeOutcome, videoDuration, framePaths, extractPromises,
                   extracted, frameIndex, visionCalls, frameAnalyses, analysis>>
    /\ UNCHANGED <<clVars, cuVars, procVars, reqVars, histVars, agVars,
                 gcVars, rqVars>>

\* ffprobe answers with metadata: the frame points are computed and every
\* grab is started
ProbeResolve ==
    /\ UNCHANGED <<visionFailed, summaryReply>>
    /\ vpc = "probing"
    /\ \E metadata \in ProbeMetadata :
        LET v     == parsedDuration(metadata)
            count == frameCountOf(v, options.intervalSeconds, options.maxFrames)
            paths == extractLoop(0, count, v, options.intervalSeconds)
        IN  /\ videoDuration' = Some(v)
            /\ framePaths' = paths
            /\ extractPromises' = [i \in 1..Len(paths) |-> "pending"]
    /\ probeOutcome' = "resolved"
    /\ vpc' = "grabbing"
    /\ UNCHANGED <<options, tempDir, extracted, frameIndex, visionCalls,
                   frameAnalyses, analysis>>
    /\ UNCHANGED <<clVars, cuVars, procVars, reqVars, histVars, agVars,
                 gcVars, rqVars>>

\* ffprobe reports an error: the probe promise rejects, extractFrames rejects
ProbeReject ==
    /\ UNCHANGED <<visionFailed, summaryReply>>
    /\ vpc = "probing"
    /\ probeOutcome' = "rejected"
    /\ extracted' = Some(Throw("ffprobe exited with code 1"))
    /\ VideoThrow("ffprobe exited with code 1", tempDir, extractPromises)
    /\ UNCHANGED <<options, videoDuration, framePaths, extractPromises,
                   frameIndex, visionCalls, frameAnalyses>>
    /\ UNCHANGED <<clVars, cuVars, procVars, reqVars, histVars, agVars,
                 gcVars, rqVars>>

\* the ffmpeg of one grab ends: its frame file is in the directory, if the
\* directory still exists
GrabEnd ==
    /\ UNCHANGED <<visionFailed, summaryReply>>
    /\ vpc \in {"grabbing", "thrown"}
    /\ \E i \in 1..Len(extractPromises) :
        /\ extractPromises[i] = "pending"
        /\ extractPromises' = [extractPromises EXCEPT ![i] = "resolved"]
        /\ tempDir' = IF tempDir = Null THEN Null
                      ELSE Some(Val(tempDir) \cup {framePaths[i].index})
    /\ UNCHANGED <<vpc, options, probeOutcome, videoDuration, framePaths,
                   extracted, frameIndex, visionCalls, frameAnalyses, analysis>>
    /\ UNCHANGED <<clVars, cuVars, procVars, reqVars, histVars, agVars,
                 gcVars, rqVars>>

\* the ffmpeg of one grab fails: its promise rejects; if extractFrames is
\* still waiting, Promise.all rejects and analyzeVideoContent fails
GrabError ==
    /\ UNCHANGED <<visionFailed, summaryReply>>
    /\ vpc \in {"grabbing", "thrown"}
    /\ \E i \in 1..Len(extractPromises) :
        /\ extractPromises[i] = "pending"
        /\ LET promises == [extractPromises EXCEPT ![i] = "rejected"]
           IN  /\ extractPromises' = promises
               /\ IF vpc = "grabbing" /\ promiseAll(promises) = "rejected"
                  THEN /\ extracted' = Some(Throw("ffmpeg exited with code 1"))
                       /\ VideoThrow("ffmpeg exited with code 1", tempDir, promises)
                  ELSE UNCHANGED <<extracted, tempDir, analysis, vpc>>
    /\ UNCHANGED <<options, probeOutcome, videoDuration, framePaths,
                   frameIndex, visionCalls, frameAnalyses>>
    /\ UNCHANGED <<clVars, cuVars, procVars, reqVars, histVars, agVars,
                 gcVars, rqVars>>

\* every grab has ended: extractFrames returns framePaths; analyzeVideoContent
\* returns the empty result for no frames, or takes the provider client and
\* starts the analysis loop
ExtractFramesReturn ==
    /\ UNCHANGED <<visionFailed, summaryReply>>
    /\ vpc = "grabbing"
    /\ promiseAll(extractPromises) = "resolved"
    /\ extracted' = Some(Return(framePaths))
    /\ IF Len(framePaths) = 0
       THEN /\ analysis' = Some(Return(EmptyVideoResult))
            /\ tempDir' = cleanupFramesDir(tempDir, {})
            /\ vpc' = "returned"
            /\ UNCHANGED <<openaiClient, frameIndex, visionCalls, frameAnalyses>>
       ELSE LET client == getOpenAIClient(openaiClient, apiKey)
            IN  IF client.threw
                THEN /\ VideoThrow(client.value, tempDir, extractPromises)
                     /\ UNCHANGED <<openaiClient, frameIndex, visionCalls,
                                    frameAnalyses>>
                ELSE /\ openaiClient' = TRUE
                     /\ AnalyzeFrom(0, frameAnalyses)
                     /\ UNCHANGED <<tempDir, analysis>>
    /\ UNCHANGED <<options, probeOutcome, videoDuration, framePaths, extractPromises>>
    /\ UNCHANGED <<apiKey, ffmpegPath, disk>>
    /\ UNCHANGED <<clVars, cuVars, reqVars, histVars, agVars,
                 gcVars, rqVars>>

\* a frame loop without its try/catch: a failing frame ends the call
VisionAnswerUnguarded ==
    /\ UNCHANGED summaryReply
    /\ vpc = "analyzing"
    /\ \E reply \in VisionReplies :
        LET parsed == IF reply.kind = "error" THEN Throw("Connection error.")
                      ELSE JSONparse(Val(reply.content))
            entry  == [frameIndex |-> frameIndex,
                       timestamp  |-> frameIndex * options.intervalSeconds,
                       analysis   |-> parsed.value,
                       tokenUsage |-> tokenUsageOf(reply.usage)]
        IN  IF parsed.threw
            THEN /\ VideoThrow(parsed.value, tempDir, extractPromises)
                 /\ visionFailed' = visionFailed \cup {frameIndex}
                 /\ UNCHANGED <<frameAnalyses, frameIndex, visionCalls>>
            ELSE /\ AnalyzeFrom(frameIndex + 1, Append(frameAnalyses, entry))
                 /\ UNCHANGED <<visionFailed, tempDir, analysis>>
    /\ UNCHANGED <<options, probeOutcome, videoDuration, framePaths,
                   extractPromises, extracted>>
    /\ UNCHANGED <<clVars, cuVars, procVars, reqVars, histVars, agVars,
                 gcVars, rqVars>>

\* the vision model answers for the frame at frameIndex: a parsed answer is
\* pushed on frameAnalyses; a rejection or an answer that is not JSON is
\* caught and the loop goes on
VisionAnswer ==
    /\ UNCHANGED summaryReply
    /\ vpc = "analyzing"
    /\ \E reply \in VisionReplies :
        LET parsed == IF reply.kind = "error" THEN Throw("Connection error.")
                      ELSE JSONparse(Val(reply.content))
            entry  == [frameIndex |-> frameIndex,
                       timestamp  |-> frameIndex * options.intervalSeconds,
                       analysis   |-> parsed.value,
                       tokenUsage |-> tokenUsageOf(reply.usage)]
        IN  /\ AnalyzeFrom(frameIndex + 1,
                           IF parsed.threw THEN frameAnalyses
                           ELSE Append(frameAnalyses, entry))
            /\ visionFailed' = IF parsed.threw THEN visionFailed \cup {frameIndex}
                               ELSE visionFailed
    /\ UNCHANGED <<options, tempDir, probeOutcome, videoDuration, framePaths,
                   extractPromises, extracted, analysis>>
    /\ UNCHANGED <<clVars, cuVars, procVars, reqVars, histVars, agVars,
                 gcVars, rqVars>>

\* a summary step without its try/catch: a failing summary call ends the call
VideoSummaryAnswerUnguarded ==
    /\ UNCHANGED visionFailed
    /\ vpc = "summarizing"
    /\ \E reply \in VideoSummaryReplies :
        LET parsed == IF reply.kind = "error" THEN Throw("Connection error.")
                      ELSE JSONparse(Val(reply.content))
            videoSummary == IF parsed.threw THEN Null ELSE Some(parsed.value)
            \* the counters are read after JSON.parse, inside the same try
            summaryTokenUsage == IF parsed.threw THEN ZeroTokenUsage
                                 ELSE tokenUsageOf(reply.usage)
        IN  /\ summaryReply' = Some(reply)
            /\ analysis' = IF parsed.threw THEN Some(Throw(parsed.value))
                           ELSE Some(Return(VideoResult(videoSummary,
                                                        summaryTokenUsage,
                                                        frameAnalyses)))
            /\ vpc' = IF parsed.threw THEN "thrown" ELSE "returned"
    /\ tempDir' = cleanupFramesDir(tempDir, {})
    /\ UNCHANGED <<options, probeOutcome, videoDuration, framePaths, extractPromises,
                   extracted, frameIndex, visionCalls, frameAnalyses>>
    /\ UNCHANGED <<clVars, cuVars, procVars, reqVars, histVars, agVars,
                 gcVars, rqVars>>

\* the summary call answers or fails: analyzeVideoContent returns its result
\* and the finally block removes the frames directory
VideoSummaryAnswer ==
    /\ UNCHANGED visionFailed
    /\ vpc = "summarizing"
    /\ \E reply \in VideoSummaryReplies :
        LET parsed == IF reply.kind = "error" THEN Throw("Connection error.")
                      ELSE JSONparse(Val(reply.content))
            videoSummary == IF parsed.threw THEN Null ELSE Some(parsed.value)
            \* the counters are read after JSON.parse, inside the same try
            summaryTokenUsage == IF parsed.threw THEN ZeroTokenUsage
                                 ELSE tokenUsageOf(reply.usage)
        IN  /\ summaryReply' = Some(reply)
            /\ analysis' = Some(Return(VideoResult(videoSummary, summaryTokenUsage,
                                                   frameAnalyses)))
    /\ tempDir' = cleanupFramesDir(tempDir, {})
    /\ vpc' = "returned"
    /\ UNCHANGED <<options, probeOutcome, videoDuration, framePaths, extractPromises,
                   extracted, frameIndex, visionCalls, frameAnalyses>>
    /\ UNCHANGED <<clVars, cuVars, procVars, reqVars, histVars, agVars,
                 gcVars, rqVars>>

InitVideo ==
    /\ apiKey \in BOOLEAN
    /\ ffmpegPath = Some("/usr/bin/ffmpeg")
    /\ openaiClient = FALSE
    /\ disk = EmptyDisk
    /\ InitRequest
    /\ InitClassifierIdle
    /\ InitCleanupIdle
    /\ InitVideoIdle
    /\ InitAggregateIdle
    /\ InitClientIdle
    /\ InitPathsIdle

NextVideo ==
    \/ AnalyzeStart
    \/ ProbeResolve
    \/ ProbeReject
    \/ GrabEnd
    \/ GrabError
    \/ ExtractFramesReturn
    \/ VisionAnswer
    \/ VideoSummaryAnswer

SpecVideo == InitVideo /\ [][NextVideo]_vars

-----------------------------------------------------------------------------
(* aggregateFrameAnalyses called on its own *)

\* longest list of frame analyses tried
MaxAnalyses == 3

\* largest people count a frame reports
MaxPeople == 3

\* the parsed vision answers considered: each is an object whose keys the
\* model may or may not have supplied (scene is a key the aggregation ignores)
AnalysisInputs ==
    { [scene |-> Some("indoor")] }
    \cup { [people |-> Some([count |-> Some(n)])] : n \in 0..MaxPeople }
    \cup { [people |-> Some([count |-> Null])],
           [people |-> Some([details |-> Some(<<"adult">>)])],
           [activities |-> Some(<<"talking">>)],
           [activities |-> Some(<<"walking", "talking">>)],
           [activities |-> Some(<<"talking", "talking">>)],
           [location |-> Some([type |-> Some("office")])],
           [location |-> Some([type |-> Some("park")])],
           [location |-> Some([type |-> Null, description |-> Some("a street")])],
           [location |-> Some([note |-> Some("blurred")])],
           [objects |-> Some(<<"desk">>)],
           [objects |-> Some(<<"laptop", "desk">>)],
           [people     |-> Some([count |-> Some(1), details |-> Some(<<"adult">>)]),
            activities |-> Some(<<"walking">>),
            location   |-> Some([type |-> Some("park")]),
            objects    |-> Some(<<"bench">>)] }

\* the frameAnalyses lists built by the analysis loop from these answers
FrameAnalysesInputs ==
    UNION { { [i \in 1..n |-> [frameIndex |-> i - 1, analysis |-> f[i]]] :
                  f \in [1..n -> AnalysisInputs] } : n \in 0..MaxAnalyses }

InitAggregate ==
    /\ agInput \in FrameAnalysesInputs
    /\ agResult = Null
    /\ apiKey = TRUE
    /\ ffmpegPath = Null
    /\ openaiClient = FALSE
    /\ disk = EmptyDisk
    /\ InitRequest
    /\ InitClassifierIdle
    /\ InitCleanupIdle
    /\ InitVideoIdle
    /\ InitClientIdle
    /\ InitPathsIdle

\* aggregateFrameAnalyses(agInput) is called and returns
Aggregate ==
    /\ agResult = Null
    /\ agResult' = Some(aggregateFrameAnalyses(agInput))
    /\ UNCHANGED agInput
    /\ UNCHANGED <<clVars, cuVars, videoVars, procVars, reqVars, histVars,
                   gcVars, rqVars>>

NextAggregate == Aggregate

SpecAggregate == InitAggregate /\ [][NextAggregate]_vars

-----------------------------------------------------------------------------
(* The two producers of token totals: one transcription request, or one call
   of analyzeVideoContent *)

NextTotals ==
    \/ vpc = "idle" /\ Next
    \/ pc = "idle" /\ ffmpegPath # Null /\ NextVideo

SpecTotals == Init /\ [][NextTotals]_vars

-----------------------------------------------------------------------------
(* getOpenAIClient (utils/openaiUtils.js) called on its own, with the
   credential of the environment changing between calls *)

\* most calls of getOpenAIClient tried
MaxCalls == 4

\* values of process.env.OPENAI_API_KEY: unset, empty, or a key
Credentials == {Null, Some(""), Some("sk-a"), Some("sk-b")}

\* a getOpenAIClient that builds a client at every call
getOpenAIClientUncached(cached, env, built) ==
    IF ~Truthy(env)
    THEN [threw |-> TRUE, message |-> "OPENAI_API_KEY is not set.", client |-> Null,
          openaiClient |-> cached, built |-> built]
    ELSE LET instance == Some([apiKey |-> Val(env), serial |-> built + 1])
         IN  [threw |-> FALSE, message |-> "", client |-> instance,
              openaiClient |-> instance, built |-> built + 1]

\* getOpenAIClient with the module variable openaiClient = cached and the
\* credential env: the completion (threw, message, client), the module
\* variable afterwards, and the number of clients built so far
getOpenAIClientCached(cached, env, built) ==
    IF cached # Null
    THEN [threw |-> FALSE, message |-> "", client |-> cached,
          openaiClient |-> cached, built |-> built]
    ELSE IF ~Truthy(env)
    THEN [threw |-> TRUE, message |-> "OPENAI_API_KEY is not set.", client |-> Null,
          openaiClient |-> cached, built |-> built]
    ELSE LET instance == Some([apiKey |-> Val(env), serial |-> built + 1])
         IN  [threw |-> FALSE, message |-> "", client |-> instance,
              openaiClient |-> instance, built |-> built + 1]

InitClient ==
    /\ gcEnv \in Credentials
    /\ gcClient = Null
    /\ gcBuilt = 0
    /\ gcCalls = <<>>
    /\ apiKey = TRUE
    /\ ffmpegPath = Null
    /\ openaiClient = FALSE
    /\ disk = EmptyDisk
    /\ InitRequest
    /\ InitClassifierIdle
    /\ InitCleanupIdle
    /\ InitVideoIdle
    /\ InitAggregateIdle
    /\ InitPathsIdle

\* the credential changes: createTranscriptionRouter assigns
\* process.env.OPENAI_API_KEY, or the operator sets or removes it
SetCredential ==
    /\ \E env \in Credentials \ {gcEnv} : gcEnv' = env
    /\ UNCHANGED <<gcClient, gcBuilt, gcCalls>>
    /\ UNCHANGED <<clVars, cuVars, videoVars, agVars, rqVars, procVars, reqVars,
                   histVars>>

\* some helper calls getOpenAIClient()
GetClient ==
    /\ Len(gcCalls) < MaxCalls
    /\ LET r == getOpenAIClientCached(gcClient, gcEnv, gcBuilt)
       IN  /\ gcClient' = r.openaiClient
           /\ gcBuilt' = r.built
           /\ gcCalls' = Append(gcCalls, [env     |-> gcEnv,
                                          threw   |-> r.threw,
                                          client  |-> r.client,
                                          cached  |-> r.openaiClient])
    /\ UNCHANGED gcEnv
    /\ UNCHANGED <<clVars, cuVars, videoVars, agVars, rqVars, procVars, reqVars,
                   histVars>>

NextClient ==
    \/ SetCredential
    \/ GetClient

SpecClient == InitClient /\ [][NextClient]_vars

-----------------------------------------------------------------------------
(* The temp paths of requests in flight at the same time *)

\* how many milliseconds the clock advances while the requests arrive
MaxClock == 1

DecimalDigits == <<"0", "1", "2", "3", "4", "5", "6", "7", "8", "9">>

\* `${Date.now()}` at t milliseconds after 1730000000000
DateNow(t) == "173000000000" \o DecimalDigits[t + 1]

\* Math.random().toString(36).substring(7): a few base-36 digits, none when
\* the random number has a short expansion
RandomSuffixes == {"k3x9a", "p0q2z", ""}

\* `${Date.now()}-${Math.random().toString(36).substring(7)}`
uniqueIdOf(now, suffix) == DateNow(now) \o "-" \o suffix

InitPaths ==
    /\ InitPathsIdle
    /\ apiKey = TRUE
    /\ ffmpegPath = Some("/usr/bin/ffmpeg")
    /\ openaiClient = FALSE
    /\ disk = EmptyDisk
    /\ InitRequest
    /\ InitClassifierIdle
    /\ InitCleanupIdle
    /\ InitVideoIdle
    /\ InitAggregateIdle
    /\ InitClientIdle

othersUnchanged ==
    UNCHANGED <<clVars, cuVars, videoVars, agVars, gcVars, procVars, reqVars,
                histVars>>

\* a millisecond passes
ClockTick ==
    /\ rqNow < MaxClock
    /\ rqNow' = rqNow + 1
    /\ UNCHANGED <<rqStage, rqPaths, rqFiles>>
    /\ othersUnchanged

\* request r reaches createTempPaths
AllocatePaths(r) ==
    /\ rqStage[r] = "idle"
    /\ \E suffix \in RandomSuffixes :
           rqPaths' = [rqPaths EXCEPT
                          ![r] = Some(createTempPaths(uniqueIdOf(rqNow, suffix)))]
    /\ rqStage' = [rqStage EXCEPT ![r] = "allocated"]
    /\ UNCHANGED <<rqNow, rqFiles>>
    /\ othersUnchanged

\* the download of request r has written its input path
DownloadWritten(r) ==
    /\ rqStage[r] = "allocated"
    /\ rqFiles' = WriteFile(rqFiles, Val(rqPaths[r]).inputPath, r)
    /\ rqStage' = [rqStage EXCEPT ![r] = "downloaded"]
    /\ UNCHANGED <<rqNow, rqPaths>>
    /\ othersUnchanged

\* the extraction of request r has written its output path
ExtractionWritten(r) ==
    /\ rqStage[r] = "downloaded"
    /\ rqFiles' = WriteFile(rqFiles, Val(rqPaths[r]).outputPath, r)
    /\ rqStage' = [rqStage EXCEPT ![r] = "extracted"]
    /\ UNCHANGED <<rqNow, rqPaths>>
    /\ othersUnchanged

\* request r ends: its success path or its catch block hands its temp paths
\* to cleanupFiles
RequestCleanup(r) ==
    /\ rqStage[r] \in {"allocated", "downloaded", "extracted"}
    /\ LET own == Val(rqPaths[r])
       IN  rqFiles' = cleanupFiles(<<Some(own.inputPath), Some(own.outputPath)>>,
                                   rqFiles, {}).disk
    /\ rqStage' = [rqStage EXCEPT ![r] = "done"]
    /\ UNCHANGED <<rqNow, rqPaths>>
    /\ othersUnchanged

NextPaths ==
    \/ ClockTick
    \/ \E r \in Requests : AllocatePaths(r)
    \/ \E r \in Requests : DownloadWritten(r)
    \/ \E r \in Requests : ExtractionWritten(r)
    \/ \E r \in Requests : RequestCleanup(r)

SpecPaths == InitPaths /\ [][NextPaths]_vars

\* the handler with its environment assumption: every pending external call
\* eventually resolves, fails or signals an event, and every run of the
\* handler between two awaits completes
SpecLive == Init /\ [][Next]_vars /\ WF_vars(Next)

-----------------------------------------------------------------------------
(* Properties of the handler (checked under Spec) *)

Responded == pc = "responded"

Response == responses[1]

Allocated == tempInputPath # Null

InputPath == Val(tempInputPath)

OutputPath == Val(tempOutputPath)

Called(op) == \E i \in 1..Len(calls) : calls[i].op = op

TimesCalled(op) == Cardinality({i \in 1..Len(calls) : calls[i].op = op})

\* C1: for every request that allocated temp paths, on every exit path, when
\* the response is emitted neither the input path nor the output path exists on
\* disk, provided no delete operation failed.
C1_TempFilesGoneAtResponse ==
    (Responded /\ Allocated /\ unlinkFailed = {}) =>
        /\ ~Exists(disk, InputPath)
        /\ ~Exists(disk, OutputPath)

\* C1 witness: a 200 response after an extraction (both files had been written),
\* every delete having succeeded.
C1_Witness ==
    /\ Responded
    /\ Response.status = 200
    /\ outcomes.extract = "ok"
    /\ TimesCalled("unlinkSync") = 2
    /\ unlinkFailed = {}

\* the sentiment reply is a provider failure or is not parseable JSON
SentimentStageFailed ==
    /\ outcomes.sentiment # Null
    /\ LET reply == Val(outcomes.sentiment)
       IN  \/ reply.kind = "error"
           \/ reply.content # Null /\ JSONparse(Val(reply.content)).threw

\* the summary provider call failed
SummaryStageFailed ==
    /\ outcomes.summary # Null
    /\ Val(outcomes.summary).kind = "error"

\* C2: analyzeSentiment and generateSummary never throw to the handler; when
\* the provider call fails (or the sentiment reply is not JSON) the returned
\* object has error = true and the fallback: sentiment "neutral", confidence 0,
\* no emotions and the fallback summary string for sentiment, the fixed fallback
\* text for the summary.
C2_EnrichmentNeverThrows ==
    /\ thrownBy \notin {"analyzeSentiment", "generateSummary"}
    /\ SentimentStageFailed =>
         /\ sentimentResult # Null
         /\ LET r == Val(sentimentResult)
            IN  /\ Get(r, "error") = Some(TRUE)
                /\ Get(r, "sentiment") = Some("neutral")
                /\ Get(r, "confidence") = Some(0)
                /\ Get(r, "emotions") = Some(<<>>)
                /\ Get(r, "summary") = Some("Sentiment analysis could not be completed")
    /\ SummaryStageFailed =>
         /\ summaryResult # Null
         /\ LET r == Val(summaryResult)
            IN  /\ Get(r, "error") = Some(TRUE)
                /\ Get(r, "summary") =
                       Some("Summarization could not be completed due to an error.")

\* C2 witness: a request in which the sentiment reply was not JSON and the
\* summary call failed, and both results were returned.
C2_Witness ==
    /\ SentimentStageFailed
    /\ Val(outcomes.sentiment).kind = "ok"
    /\ SummaryStageFailed
    /\ sentimentResult # Null
    /\ summaryResult # Null

\* C3: once the transcription has succeeded, whatever the sentiment and summary
\* stages do, the request ends in a 200 response carrying the transcription
\* text; the summary stage is invoked whenever the sentiment stage has
\* completed, failed or not; and no error reaches the handler's catch block.
C3_EnrichmentFailureNotFatal ==
    /\ (Responded /\ outcomes.transcribe = "ok") =>
         /\ Len(responses) = 1
         /\ Response.status = 200
         /\ Response.body.transcription =
                (IF Truthy(outcomes.text) THEN Val(outcomes.text) ELSE "")
         /\ thrownBy = "none"
    /\ outcomes.sentiment # Null => Called("generateSummary")
    /\ outcomes.transcribe = "ok" => thrownBy = "none"

\* C3 witness: a 200 response after both the sentiment and the summary stage
\* failed.
C3_Witness ==
    /\ Responded
    /\ Response.status = 200
    /\ SentimentStageFailed
    /\ SummaryStageFailed
    /\ Response.body.sentiment.error = TRUE

\* the transcription provider call of the request failed
TranscriptionFailed == outcomes.transcribe = "failed"

\* what C4 says apart from the state of the temp files: a single 500 response
\* with body {error, message, url}, no sentiment or summary stage, one
\* transcription attempt
C4_FatalWithoutEnrichment ==
    /\ Responded
    /\ Len(responses) = 1
    /\ Response.status = 500
    /\ DOMAIN Response.body = {"error", "message", "url"}
    /\ Response.body.url = url
    /\ ~Called("analyzeSentiment")
    /\ ~Called("generateSummary")
    /\ TimesCalled("transcribeAudio") = 1
    /\ thrownBy = "transcribeAudio"

\* C4 as stated: if the transcription provider call fails, the request ends in
\* a 500 response with body {error, message, url}, the sentiment and summary
\* stages are never invoked, transcription is not retried, and the allocated
\* temp files are cleaned up (gone from disk) before the response.
C4_AsStated ==
    TranscriptionFailed =>
        /\ C4_FatalWithoutEnrichment
        /\ ~Exists(disk, InputPath)
        /\ ~Exists(disk, OutputPath)

\* C4 amended: as C4, with the temp files cleaned up provided the delete
\* operations succeed: cleanupFiles has run before the response, and a temp
\* file is still on disk only if its unlinkSync threw.
C4_TranscriptionFailureIsFatal ==
    TranscriptionFailed =>
        /\ C4_FatalWithoutEnrichment
        /\ Called("cleanupFiles")
        /\ \A p \in {InputPath, OutputPath} : Exists(disk, p) => p \in unlinkFailed
        /\ unlinkFailed = {} => ~Exists(disk, InputPath) /\ ~Exists(disk, OutputPath)

\* C4 witness: the transcription of an extracted file failed, both temp files
\* were deleted and the 500 response was sent.
C4_Witness ==
    /\ TranscriptionFailed
    /\ Responded
    /\ outcomes.extract = "ok"
    /\ TimesCalled("unlinkSync") = 2
    /\ unlinkFailed = {}
    /\ ~Exists(disk, InputPath)
    /\ ~Exists(disk, OutputPath)

\* the path handed to the i-th call was validated by an earlier call
ValidatedBefore(i) ==
    \E j \in 1..(i - 1) :
        /\ calls[j].op = "validateFileSize"
        /\ calls[j].path = calls[i].path

\* C5: in every request that reaches the transcription stage the size
\* validator was invoked before transcription on exactly the uploaded file (the
\* download when AudioOnly, the extracted file when NeedsExtraction), and no
\* file larger than 25 MB is passed to transcribeAudio.
C5_UploadedFileWasValidated ==
    \A i \in 1..Len(calls) :
        calls[i].op = "transcribeAudio" =>
            /\ calls[i].path = (IF Val(fileIsAudio) THEN InputPath ELSE OutputPath)
            /\ ValidatedBefore(i)
            /\ calls[i].size <= 25 * 1024 * 1024

\* C5 holds on the AudioOnly path: the download itself is validated, then
\* uploaded.
C5_AudioOnlyUploadWasValidated ==
    \A i \in 1..Len(calls) :
        (calls[i].op = "transcribeAudio" /\ Val(fileIsAudio)) =>
            /\ calls[i].path = InputPath
            /\ ValidatedBefore(i)
            /\ calls[i].size <= 25 * 1024 * 1024

\* the i-th call is a validateFileSize that threw
ValidationFailedAt(i) ==
    /\ calls[i].op = "validateFileSize"
    /\ thrownBy = "validateFileSize"

\* what C6 says apart from the removal of the file: validateFileSize fails
\* exactly when the size is strictly greater than 25 * 1024 * 1024 bytes and
\* otherwise returns the size; a failure ends the request in 500 with no
\* transcription
C6_ValidatorAndFatalPath ==
    /\ \A i \in 1..Len(calls) :
         calls[i].op = "validateFileSize" =>
            /\ ValidationFailedAt(i) <=> calls[i].size > 25 * 1024 * 1024
            /\ ~ValidationFailedAt(i) => outputSizeBytes = calls[i].size
    /\ thrownBy = "validateFileSize" =>
         /\ Val(fileIsAudio)
         /\ Responded
         /\ Response.status = 500
         /\ ~Called("transcribeAudio")

\* C6 as stated: validateFileSize fails exactly when the file is strictly
\* larger than 25 MB and otherwise returns the size; when it fails for an
\* AudioOnly download the request ends in 500, transcription is never invoked
\* and the downloaded file is removed.
C6_AsStated ==
    /\ C6_ValidatorAndFatalPath
    /\ thrownBy = "validateFileSize" => ~Exists(disk, InputPath)

\* C6 amended: as C6, with the downloaded file removed provided its delete
\* succeeds: unlinkSync is attempted on it before the response, and it is
\* still on disk only if that unlinkSync threw.
C6_ValidatorCeiling ==
    /\ C6_ValidatorAndFatalPath
    /\ thrownBy = "validateFileSize" =>
         /\ \E i \in 1..Len(calls) :
                calls[i].op = "unlinkSync" /\ calls[i].path = InputPath
         /\ Exists(disk, InputPath) <=> InputPath \in unlinkFailed

\* C6 witness: an audio download one byte over the ceiling was refused and
\* deleted, and the 500 response was sent.
C6_Witness ==
    /\ thrownBy = "validateFileSize"
    /\ Responded
    /\ Response.status = 500
    /\ \E i \in 1..Len(calls) :
           calls[i].op = "validateFileSize" /\ calls[i].size = 25 * 1024 * 1024 + 1
    /\ ~Exists(disk, InputPath)

\* the url of the request names an .mp3 resource
UrlIsMp3 == url.t = "string" /\ toLowerCase(extname(url.v)) = ".mp3"

\* the source declared a content type matching a video pattern
DeclaredVideo ==
    /\ Truthy(outcomes.header)
    /\ someIncludes(videoMimeTypes, toLowerCase(Val(outcomes.header)))

\* the resource was served whole, is within the size ceiling, and neither the
\* transcoding tool nor the transcription provider failed on it
ResourceValid ==
    /\ outcomes.download = "finished"
    /\ \A i \in 1..Len(calls) :
           calls[i].op = "isAudioFile" => calls[i].size <= 25 * 1024 * 1024
    /\ outcomes.extract # "failed"
    /\ outcomes.transcribe # "failed"

\* C10: a request whose url points to a valid .mp3 resource is answered 200
\* with metadata.fileWasAudio = true and processingTimes.extraction = 0, for
\* any declared content type that is not a video pattern, no content type
\* included.
C10_Mp3IsTranscribedDirectly ==
    (Responded /\ UrlIsMp3 /\ ResourceValid /\ ~DeclaredVideo) =>
        /\ Response.status = 200
        /\ Response.body.metadata.fileWasAudio = TRUE
        /\ Response.body.metadata.processingTimes.extraction = 0

\* C10 holds when the source declares an audio content type: the temp path
\* always ends in .webm, so only the content type can classify a download as
\* audio.
C10_Mp3WithAudioTypeIsDirect ==
    (Responded /\ UrlIsMp3 /\ ResourceValid /\ Truthy(outcomes.header)
        /\ someIncludes(audioMimeTypes, toLowerCase(Val(outcomes.header)))) =>
        /\ Response.status = 200
        /\ Response.body.metadata.fileWasAudio = TRUE
        /\ Response.body.metadata.processingTimes.extraction = 0

-----------------------------------------------------------------------------
(* Properties of the classifier (checked under SpecClassify) *)

Classified == clResult # Null

\* the content type handed to the classifier matches a known video pattern
MatchesVideoPattern ==
    Truthy(clType) /\ someIncludes(videoMimeTypes, toLowerCase(Val(clType)))

\* the content type handed to the classifier matches a known audio pattern
MatchesAudioPattern ==
    Truthy(clType) /\ someIncludes(audioMimeTypes, toLowerCase(Val(clType)))

\* the extension of the path is in the audio-only set of the specification
HasAudioOnlyExtension ==
    toLowerCase(extname(clPath)) \in
        {".mp3", ".wav", ".m4a", ".flac", ".aac", ".ogg", ".mpga"}

\* C7: for every content type matching a known video MIME pattern the
\* classifier returns NeedsExtraction (false) whatever the extension, the
\* audio-only extensions included.
C7_VideoTypeOverridesExtension ==
    (Classified /\ MatchesVideoPattern) => clResult = Some(FALSE)

\* C7 for the current isAudioFile alone.
C7_CurrentVariant ==
    (Classified /\ clVariant = "current" /\ MatchesVideoPattern) => clResult = Some(FALSE)

\* C8: with no content type the classifier returns AudioOnly for every
\* audio-only extension, and NeedsExtraction for every ambiguous and every
\* unknown extension.
C8_ExtensionDecidesWithoutType ==
    (Classified /\ clType = Null) => clResult = Some(HasAudioOnlyExtension)

\* C8 for the current isAudioFile alone.
C8_CurrentVariant ==
    (Classified /\ clVariant = "current" /\ clType = Null) =>
        clResult = Some(HasAudioOnlyExtension)

\* the answer the precedence of the specification gives
PrecedenceAnswer ==
    IF MatchesVideoPattern THEN FALSE
    ELSE IF MatchesAudioPattern THEN TRUE
    ELSE HasAudioOnlyExtension

\* C9: for every (extension, content type) pair the classifier follows the
\* precedence: a video content type wins, else an audio content type gives
\* AudioOnly even for ambiguous or unknown extensions, else an audio-only
\* extension gives AudioOnly, else NeedsExtraction; the extension counts only
\* when the content type matches neither list.
C9_PrecedencePreserved ==
    Classified => clResult = Some(PrecedenceAnswer)

\* C9 for the current isAudioFile alone.
C9_CurrentVariant ==
    (Classified /\ clVariant = "current") => clResult = Some(PrecedenceAnswer)

-----------------------------------------------------------------------------
(* Request validation *)

UrlMissingOrMalformed == url.t # "string" \/ url.v = ""

\* C11: a request whose url is missing, empty or not a string is answered
\* with 400 and an error naming the URL requirement, whether or not the
\* provider credential is set; no temp path is allocated, no download is
\* started and no cleanup is run.
C11_InvalidUrlIs400 ==
    (Responded /\ UrlMissingOrMalformed) =>
        /\ Len(responses) = 1
        /\ Response.status = 400
        /\ includes(Response.body.error, "URL is required")
        /\ ~Allocated /\ tempOutputPath = Null
        /\ calls = <<>>
        /\ disk = EmptyDisk

\* an empty url is refused while the credential is unset
C11_Witness ==
    /\ Responded /\ url.t = "string" /\ url.v = "" /\ ~apiKey
    /\ Response.status = 400

\* C12: a request with a valid string url while the provider credential is
\* unset is answered with 500 and a configuration-error message; no temp
\* path is allocated, no temp file is created, and no download or provider
\* call is made.
C12_MissingCredentialIs500 ==
    (Responded /\ ~UrlMissingOrMalformed /\ ~apiKey) =>
        /\ Len(responses) = 1
        /\ Response.status = 500
        /\ includes(Response.body.error, "configuration error")
        /\ ~Allocated /\ tempOutputPath = Null
        /\ calls = <<>>
        /\ disk = EmptyDisk

C12_Witness ==
    /\ Responded /\ ~UrlMissingOrMalformed /\ ~apiKey
    /\ Response.status = 500

-----------------------------------------------------------------------------
(* Fatal stages *)

\* the download failed in a way downloadFile reports
DownloadFailed == outcomes.download \in {"rejected", "writeError"}

\* ffmpeg is unavailable, or it exited with an error
ExtractionFailed == thrownBy = "ffmpeg" \/ outcomes.extract = "failed"

FatalResponse ==
    /\ Responded
    /\ Len(responses) = 1
    /\ Response.status = 500
    /\ DOMAIN Response.body = {"error", "message", "url"}
    /\ Response.body.url = url

-----------------------------------------------------------------------------
(* Progress *)

\* C14: every request eventually emits a response (200, 400 or 500), given
\* that each external call eventually resolves, fails or signals an error
\* event; the chain never stays blocked in a stage, including when the source
\* stream errors in the middle of the download.
C14_EventuallyResponds ==
    <>(Responded /\ Response.status \in {200, 400, 500})

\* the blocked stage: the source stream errored, downloadFile is still awaited
\* and no response was or will be emitted
C14_BlockedInDownload ==
    /\ pc = "stalled"
    /\ outcomes.download = "sourceError"
    /\ responses = <<>>

\* C14 apart from the source-stream error: the request is answered, or it is
\* blocked in the download after an error of the source stream
C14_RespondsOrBlockedInDownload ==
    <>(Responded \/ C14_BlockedInDownload)

-----------------------------------------------------------------------------
(* The error boundary *)

-----------------------------------------------------------------------------
(* Best-effort deletion *)

\* the messages a failure of `stage` carries into the catch
StageMessages(stage) ==
    CASE stage = "download"              -> ErrorMessages
      [] stage = "validateFileSize"      ->
             {validateFileSize(WriteFile(EmptyDisk, InputPath, outputSizeBytes),
                               InputPath).value}
      [] stage = "ffmpeg"                -> {"FFmpeg is not installed or not found."}
      [] stage = "extractAudioFromVideo" -> {"ffmpeg exited with code 1"}
      [] stage = "transcribeAudio"       -> {"Connection error."}
      [] OTHER                           -> {}

\* the responses the outcome of the stages determines, whatever the deletes did
ResponsesOfOutcome ==
    IF thrownBy = "none"
    THEN {[status |-> 200,
           body   |-> SuccessBody(Val(sentimentResult), Val(summaryResult))]}
    ELSE {[status |-> 500,
           body   |-> [error |-> "Failed to transcribe audio", message |-> m, url |-> url]] :
             m \in StageMessages(thrownBy)}

\* C16: a failure to delete a temp file never changes the response: the
\* failed path is recorded (cleaned = false) and left on disk, cleanupFiles
\* goes on with the remaining paths, which are deleted, and the request
\* returns the status and body that the outcome of its stages determines.
C16_DeleteFailureNeverAltersResponse ==
    (Responded /\ Called("cleanupFiles")) =>
        /\ Len(responses) = 1
        /\ Response \in ResponsesOfOutcome
        /\ \A p \in unlinkFailed :
              /\ Exists(disk, p)
              /\ \E i \in 1..Len(calls) : calls[i].op = "unlinkSync" /\ calls[i].path = p
        /\ \A p \in {InputPath, OutputPath} : Exists(disk, p) => p \in unlinkFailed

\* the delete of the downloaded video failed, the extracted audio was still
\* deleted, and the request was answered with 200
C16_Witness ==
    /\ Responded /\ Response.status = 200
    /\ fileIsAudio = Some(FALSE)
    /\ unlinkFailed = {InputPath}
    /\ Exists(disk, InputPath) /\ ~Exists(disk, OutputPath)
    /\ \E i \in 1..Len(calls) : calls[i].op = "unlinkSync" /\ calls[i].path = OutputPath

-----------------------------------------------------------------------------
(* Tolerance of missing files (checked under SpecCleanup) *)

\* every entry of every call is for a path that existed when the call began:
\* a null or missing path is skipped without an entry
MissingPathsAreSkipped ==
    \A i \in 1..Len(cuRuns) :
        \A k \in 1..Len(cuRuns[i].cleanedFiles) :
            /\ Exists(cuRuns[i].before, cuRuns[i].cleanedFiles[k].path)
            /\ Some(cuRuns[i].cleanedFiles[k].path) \in {cuPaths[j] : j \in 1..Len(cuPaths)}

AllCleaned(run) ==
    \A k \in 1..Len(run.cleanedFiles) : run.cleanedFiles[k].cleaned

\* C17: cleanupFiles skips a missing or null path without error and without
\* an entry, so a second call on the same paths returns an empty list and
\* leaves the filesystem unchanged.
C17_AsStated ==
    /\ MissingPathsAreSkipped
    /\ \A i \in 2..Len(cuRuns) :
          /\ cuRuns[i].cleanedFiles = <<>>
          /\ cuRuns[i].after = cuRuns[i].before

\* C17 amended: as C17, for a second call that follows a call in which every
\* delete succeeded; a path whose delete failed still exists, and the next
\* call attempts it again.
C17_SecondCleanupIsEmpty ==
    /\ MissingPathsAreSkipped
    /\ \A i \in 2..Len(cuRuns) :
          IF AllCleaned(cuRuns[i - 1])
          THEN /\ cuRuns[i].cleanedFiles = <<>>
               /\ cuRuns[i].after = cuRuns[i].before
          ELSE cuRuns[i].cleanedFiles # <<>>

\* two calls on a list with a null, a missing and an existing path: the first
\* deleted the existing one, the second found nothing
C17_Witness ==
    /\ Len(cuRuns) = 2
    /\ Null \in {cuPaths[j] : j \in 1..Len(cuPaths)}
    /\ \E j \in 1..Len(cuPaths) :
          cuPaths[j] # Null /\ ~Exists(cuRuns[1].before, Val(cuPaths[j]))
    /\ Len(cuRuns[1].cleanedFiles) = 1 /\ AllCleaned(cuRuns[1])
    /\ cuRuns[2].cleanedFiles = <<>>

-----------------------------------------------------------------------------
(* Frame sampling (checked under SpecVideo) *)

\* ffprobe answered and the sampling loop has run
Sampled == probeOutcome = "resolved"

\* the least k with d <= k * interval: ceil(d / interval), for d > 0
CeilingOfRatio(d, interval) ==
    CHOOSE k \in 1..d : (k - 1) * interval < d /\ d <= k * interval

Timestamps == [i \in 1..Len(framePaths) |-> framePaths[i].timestamp]

\* C18: for a video of finite positive duration d, interval s > 0 and
\* maxFrames m > 0, extractFrames samples exactly min(m, ceil(d / s)) frames,
\* at the timestamps 0, s, 2s, ... in that order, each of them strictly
\* before d; for d = 37, s = 5, m = 6 they are 0, 5, 10, 15, 20, 25.
C18_SamplingPoints ==
    (/\ Sampled
     /\ hasDuration(Val(videoDuration))
     /\ options.intervalSeconds > 0
     /\ options.maxFrames > 0) =>
        LET d == Val(videoDuration).n
            n == Min(options.maxFrames, CeilingOfRatio(d, options.intervalSeconds))
        IN  /\ Len(framePaths) = n
            /\ Len(extractPromises) = n
            /\ \A i \in 1..n :
                  /\ framePaths[i].index = i - 1
                  /\ framePaths[i].timestamp = (i - 1) * options.intervalSeconds
                  /\ framePaths[i].timestamp < d
            /\ (d = 37 /\ options.intervalSeconds = 5 /\ options.maxFrames = 6) =>
                  Timestamps = <<0, 5, 10, 15, 20, 25>>

\* the 37 second video sampled every 5 seconds with at most 6 frames
C18_Witness ==
    /\ Sampled
    /\ videoDuration = Some(Num(37))
    /\ options = [intervalSeconds |-> 5, maxFrames |-> 6]
    /\ Len(framePaths) = 6

\* the probe gave no usable duration: it reported an error, or the duration
\* it gave is zero, negative or not finite
NoUsableDuration ==
    \/ probeOutcome = "rejected"
    \/ probeOutcome = "resolved" /\ ~hasDuration(Val(videoDuration))

OneSampleAtZero ==
    /\ framePaths = <<[index |-> 0, timestamp |-> 0]>>
    /\ Len(extractPromises) = 1

\* C19: when the duration probe returns 0, a non-positive or non-finite
\* value, or is unavailable, including when the probe itself reports an error,
\* extractFrames yields exactly one sample at timestamp 0 instead of failing.
C19_NoDurationYieldsOneSample ==
    NoUsableDuration =>
        /\ OneSampleAtZero
        /\ probeOutcome = "rejected" => (extracted = Null \/ ~Val(extracted).threw)

\* C19 without the probe error: a probe that answers with no usable
\* duration gives exactly one sample at timestamp 0, whatever maxFrames is
C19_AnsweredProbeYieldsOneSample ==
    (probeOutcome = "resolved" /\ ~hasDuration(Val(videoDuration))) => OneSampleAtZero

\* the probe reported an error and extractFrames failed without a sample
C19_ProbeErrorFails ==
    /\ probeOutcome = "rejected"
    /\ framePaths = <<>>
    /\ extracted # Null /\ Val(extracted).threw
    /\ analysis # Null /\ Val(analysis).threw

GrabFailed == \E i \in 1..Len(extractPromises) : extractPromises[i] = "rejected"

\* C20: if any single frame grab fails, the extractFrames call fails,
\* analyzeVideoContent fails with it, and no frame of that video is sent to
\* the vision model.
C20_GrabFailureFailsSampling ==
    GrabFailed =>
        /\ extracted # Null /\ Val(extracted).threw
        /\ analysis # Null /\ Val(analysis).threw
        /\ vpc = "thrown"
        /\ visionCalls = <<>>
        /\ frameAnalyses = <<>>

\* one of several grabs failed while every other one ended
C20_Witness ==
    /\ Len(extractPromises) >= 2
    /\ Cardinality({i \in 1..Len(extractPromises) : extractPromises[i] = "rejected"}) = 1
    /\ \A i \in 1..Len(extractPromises) : extractPromises[i] # "pending"
    /\ vpc = "thrown" /\ visionCalls = <<>>

-----------------------------------------------------------------------------
(* Frame analysis (checked under SpecVideo) *)

\* the frames whose vision call has been answered
AnsweredFrames ==
    {visionCalls[k] : k \in 1..Len(visionCalls)}
        \ (IF vpc = "analyzing" THEN {frameIndex} ELSE {})

\* C21: frameAnalyses holds exactly the frames whose analysis succeeded, each
\* with its own frameIndex, in increasing frameIndex order; a failing frame is
\* left out, never stops the later frames from being analyzed, and never makes
\* analyzeVideoContent raise: with one failure among K frames the result has
\* K - 1 entries.
C21_FailedFramesAreOmitted ==
    /\ {frameAnalyses[k].frameIndex : k \in 1..Len(frameAnalyses)}
           = AnsweredFrames \ visionFailed
    /\ Len(frameAnalyses) = Cardinality(AnsweredFrames \ visionFailed)
    /\ \A k \in 1..Len(frameAnalyses) :
          /\ frameAnalyses[k].timestamp
                = frameAnalyses[k].frameIndex * options.intervalSeconds
          /\ k > 1 => frameAnalyses[k - 1].frameIndex < frameAnalyses[k].frameIndex
    /\ visionFailed # {} => vpc \in {"analyzing", "summarizing", "returned"}
    /\ vpc \in {"summarizing", "returned"} =>
          /\ visionCalls = [k \in 1..Len(framePaths) |-> framePaths[k].index]
          /\ Len(frameAnalyses) = Len(framePaths) - Cardinality(visionFailed)
    /\ (vpc = "returned" /\ Len(framePaths) > 0) =>
          /\ ~Val(analysis).threw
          /\ Val(analysis).value.frameAnalyses = frameAnalyses

\* three frames were sampled, the analysis of the middle one failed, the call
\* returned the other two
C21_Witness ==
    /\ vpc = "returned"
    /\ Len(framePaths) = 3
    /\ visionFailed = {1}
    /\ Len(Val(analysis).value.frameAnalyses) = 2
    /\ Val(analysis).value.frameAnalyses[2].frameIndex = 2

-----------------------------------------------------------------------------
(* The frames directory (checked under SpecVideo) *)

VideoCallEnded == vpc \in {"returned", "thrown"}

\* C22: the frames directory created by analyzeVideoContent no longer exists
\* when the call returns or throws, on every exit path (normal result, zero
\* frames extracted, sampling failure, provider client unavailable).
C22_FramesDirGoneAtExit ==
    VideoCallEnded => tempDir = Null

\* C22 apart from the sampling failure: the directory is gone whenever the
\* call returned, and whenever it threw without a failed grab
C22_FramesDirGoneUnlessGrabFailed ==
    (VideoCallEnded /\ ~GrabFailed) => tempDir = Null

\* a grab failed while another one was still running and wrote its frame
\* during the removal: the call has thrown and the directory is still there
C22_FramesDirLeftBehind ==
    /\ vpc = "thrown"
    /\ GrabFailed
    /\ tempDir # Null /\ Val(tempDir) # {}

-----------------------------------------------------------------------------
(* Properties of aggregateFrameAnalyses (checked under SpecAggregate) *)

Aggregated == agResult # Null

\* a ratio [num, den] is a number: neither NaN (0/0) nor an infinity (n/0)
IsFiniteRatio(r) == r.den # 0

\* C23: called on an empty list, aggregateFrameAnalyses returns a people
\* count whose min, max and average are all 0 and empty activities, locations
\* and commonObjects; no field is NaN or an infinity.
C23_EmptyListAggregatesToZero ==
    (Aggregated /\ agInput = <<>>) =>
        LET r == Val(agResult)
        IN  /\ r.peopleCount.min = 0
            /\ r.peopleCount.max = 0
            /\ IsFiniteRatio(r.peopleCount.average)
            /\ r.peopleCount.average.num = 0
            /\ r.activities = <<>>
            /\ r.locations.all = <<>>
            /\ r.commonObjects = <<>>

C23_Witness == Aggregated /\ agInput = <<>>

\* the people count frame i of the input supplies (Null: missing or null)
SuppliedCount(i) ==
    LET people == Get(agInput[i].analysis, "people")
    IN  IF people = Null THEN Null ELSE Get(Val(people), "count")

FramesWithCount == {i \in 1..Len(agInput) : SuppliedCount(i) # Null}

\* the supplied counts, in frame order
SuppliedCounts ==
    LET kept == SelectSeq([i \in 1..Len(agInput) |-> i],
                          LAMBDA i : SuppliedCount(i) # Null)
    IN  [k \in 1..Len(kept) |-> Val(SuppliedCount(kept[k]))]

\* stats is the minimum, the maximum and the arithmetic mean of counts
IsMinMaxMean(stats, counts) ==
    /\ stats.min \in Range(counts)
    /\ \A c \in Range(counts) : stats.min <= c
    /\ stats.max \in Range(counts)
    /\ \A c \in Range(counts) : stats.max >= c
    /\ IsFiniteRatio(stats.average)
    /\ stats.average.num * Len(counts) = Sum(counts) * stats.average.den

\* C24: when every frame supplies a people count, peopleCount holds their
\* minimum, maximum and arithmetic mean, with min <= average <= max; counts
\* 1, 2, 3 give min 1, max 3, average 2.
C24_MinMaxMeanOfCounts ==
    (Aggregated /\ agInput # <<>> /\ FramesWithCount = 1..Len(agInput)) =>
        LET stats == Val(agResult).peopleCount
        IN  /\ IsMinMaxMean(stats, SuppliedCounts)
            /\ stats.min * stats.average.den <= stats.average.num
            /\ stats.average.num <= stats.max * stats.average.den
            /\ SuppliedCounts = <<1, 2, 3>> =>
                   stats.min = 1 /\ stats.max = 3 /\ stats.average.num = 2 * stats.average.den

C24_Witness ==
    /\ Aggregated
    /\ FramesWithCount = 1..Len(agInput)
    /\ SuppliedCounts = <<1, 2, 3>>
    /\ Val(agResult).peopleCount.max = 3

\* the counts as the code reduces them: 0 where a frame supplies none
CountsWithZeros ==
    [i \in 1..Len(agInput) |->
        IF SuppliedCount(i) = Null THEN 0 ELSE Val(SuppliedCount(i))]

\* C25: frames whose people.count is missing or null are excluded from the
\* people-count reduction: min, max and average are those of the supplied
\* counts only, and a missing count is not treated as zero.
C25_MissingCountsAreExcluded ==
    (Aggregated /\ FramesWithCount # {}) =>
        IsMinMaxMean(Val(agResult).peopleCount, SuppliedCounts)

\* what the code computes instead: a frame without a count enters the
\* reduction as a count of zero
C25_MissingCountsAreZero ==
    (Aggregated /\ agInput # <<>>) =>
        IsMinMaxMean(Val(agResult).peopleCount, CountsWithZeros)

\* counts 2 and missing: the result is min 0, max 2, average 1
C25_MissingCountedAsZero ==
    /\ Aggregated
    /\ Len(agInput) = 2
    /\ SuppliedCount(1) = Some(2)
    /\ SuppliedCount(2) = Null
    /\ Val(agResult).peopleCount.min = 0
    /\ Val(agResult).peopleCount.average = [num |-> 2, den |-> 2]

\* the location strings tallied, in frame order
Tallied ==
    LET allLocations == allLocationsOf(agInput)
    IN  [i \in 1..Len(allLocations) |-> KeyOf(allLocations[i])]

Occurrences(loc) == Cardinality({i \in 1..Len(Tallied) : Tallied[i] = loc})

FirstSeen(loc) == CHOOSE i \in 1..Len(Tallied) :
                      /\ Tallied[i] = loc
                      /\ \A j \in 1..(i - 1) : Tallied[j] # loc

HasMaximumCount(loc) ==
    /\ loc \in Range(Tallied)
    /\ \A other \in Range(Tallied) : Occurrences(other) <= Occurrences(loc)

MostCommon == Val(Val(agResult).locations.mostCommon)

\* C26: locations.mostCommon is a location with the maximum occurrence count,
\* and among several locations with that count it is the one encountered
\* first in frame order.
C26_MostCommonIsFirstOfTheMost ==
    (Aggregated /\ Tallied # <<>>) =>
        /\ HasMaximumCount(MostCommon)
        /\ \A other \in Range(Tallied) :
               HasMaximumCount(other) => FirstSeen(MostCommon) <= FirstSeen(other)

\* what the code computes instead: a location with the maximum count, the one
\* first seen last among those that tie
C26_MostCommonIsLastOfTheMost ==
    (Aggregated /\ Tallied # <<>>) =>
        /\ HasMaximumCount(MostCommon)
        /\ \A other \in Range(Tallied) :
               HasMaximumCount(other) => FirstSeen(MostCommon) >= FirstSeen(other)

\* office then park, once each: park is returned
C26_LaterLocationWinsTie ==
    /\ Aggregated
    /\ Tallied = <<"office", "park">>
    /\ MostCommon = "park"

\* the values of an array field over all frames of the input
ValuesIn(key) == Range(arrayItems(agInput, key))

HasNoRepeat(seq) == Cardinality(Range(seq)) = Len(seq)

\* C27: the aggregated activities, and likewise commonObjects, are the set
\* union of the per-frame arrays: every value of any frame appears exactly
\* once, and no other value appears.
C27_ActivitiesAndObjectsAreUnions ==
    Aggregated =>
        LET r == Val(agResult)
        IN  /\ Range(r.activities) = ValuesIn("activities")
            /\ HasNoRepeat(r.activities)
            /\ Range(r.commonObjects) = ValuesIn("objects")
            /\ HasNoRepeat(r.commonObjects)

\* an activity repeated within a frame and across frames, and an object
\* repeated across frames
C27_Witness ==
    /\ Aggregated
    /\ Len(agInput) = 3
    /\ Get(agInput[1].analysis, "activities") = Some(<<"talking", "talking">>)
    /\ Get(agInput[2].analysis, "activities") = Some(<<"walking", "talking">>)
    /\ Get(agInput[3].analysis, "objects") = Some(<<"laptop", "desk">>)
    /\ Val(agResult).activities = <<"talking", "walking">>
    /\ Val(agResult).commonObjects = <<"laptop", "desk">>

-----------------------------------------------------------------------------
(* Properties of the token totals (checked under SpecTotals) *)

TokenFields == {"promptTokens", "completionTokens", "totalTokens"}

\* the tokenUsage block of the 200 response, where one was sent
TranscriptionTotalsAdd ==
    \A i \in 1..Len(responses) :
        responses[i].status = 200 =>
            LET usage == responses[i].body.metadata.tokenUsage
            IN  /\ DOMAIN usage.total = TokenFields
                /\ \A f \in TokenFields :
                       usage.total[f] = Val(usage.sentiment)[f]
                                          + Val(usage.summarization)[f]

VideoReturned == analysis # Null /\ ~Val(analysis).threw

\* the tokenUsage block of the video result, where one was returned
VideoTotalsAdd ==
    VideoReturned =>
        LET result == Val(analysis).value
            usage  == result.metadata.tokenUsage
            ofFrames(f) == Sum([i \in 1..Len(result.frameAnalyses) |->
                                   result.frameAnalyses[i].tokenUsage[f]])
        IN  /\ DOMAIN usage.total = TokenFields
            /\ \A f \in TokenFields :
                   /\ usage.frames[f] = ofFrames(f)
                   /\ usage.total[f] = ofFrames(f) + usage.summary[f]

\* C28: every emitted tokenUsage.total is the field-wise sum of its stages:
\* sentiment + summarization in the transcription response, and the sum over
\* the entries of frameAnalyses + summary in the video result, also when a
\* stage degraded or no frame succeeded.
C28_TotalsAreFieldWiseSums == TranscriptionTotalsAdd /\ VideoTotalsAdd

\* C28 witness: a video result with two analysed frames and a summary, whose
\* total counts the three calls.
C28_Witness ==
    /\ VideoReturned
    /\ Len(Val(analysis).value.frameAnalyses) = 2
    /\ Val(analysis).value.summary # Null
    /\ Val(analysis).value.metadata.tokenUsage.total.promptTokens = 3

\* a 200 response after both language stages degraded: the total is zero
C28_DegradedTranscriptionTotals ==
    /\ Responded
    /\ Response.status = 200
    /\ Response.body.sentiment.error
    /\ Response.body.metadata.tokenUsage.total.totalTokens = 0

\* a video result in which no frame succeeded but the summary call did
C28_NoFrameSucceededTotals ==
    /\ VideoReturned
    /\ visionFailed # {}
    /\ Val(analysis).value.frameAnalyses = <<>>
    /\ Val(analysis).value.metadata.tokenUsage.total.totalTokens = 2

-----------------------------------------------------------------------------
(* Properties of the sentiment result (checked under Spec) *)

SentimentLabels == {"positive", "negative", "neutral", "mixed"}

\* r has a known label, a confidence within [0, 1] (kept in hundredths) and
\* a boolean error field
IsWellFormedSentiment(r) ==
    /\ Get(r, "sentiment") # Null
    /\ Val(Get(r, "sentiment")) \in SentimentLabels
    /\ Get(r, "confidence") # Null
    /\ Val(Get(r, "confidence")) \in 0..100
    /\ Get(r, "error") # Null
    /\ Val(Get(r, "error")) \in BOOLEAN

\* C29: every result returned by analyzeSentiment, on the success path as on
\* the degraded path, has sentiment in {positive, negative, neutral, mixed},
\* confidence within [0, 1] and a boolean error field, whatever JSON object
\* the provider replied with.
C29_SentimentResultIsWellFormed ==
    sentimentResult # Null => IsWellFormedSentiment(Val(sentimentResult))

\* what the code guarantees: the result of the degraded path is well formed
C29_DegradedResultIsWellFormed ==
    (sentimentResult # Null /\ SentimentStageFailed) =>
        /\ IsWellFormedSentiment(Val(sentimentResult))
        /\ Val(Get(Val(sentimentResult), "error"))

\* the provider replied {}: the result has neither sentiment nor confidence
\* nor error
C29_EmptyReplyPassesThrough ==
    /\ sentimentResult # Null
    /\ outcomes.sentiment # Null
    /\ Val(outcomes.sentiment).kind = "ok"
    /\ Val(outcomes.sentiment).content = Some("{}")
    /\ Get(Val(sentimentResult), "sentiment") = Null
    /\ Get(Val(sentimentResult), "confidence") = Null
    /\ Get(Val(sentimentResult), "error") = Null

-----------------------------------------------------------------------------
(* Properties of the audio and video branches (checked under Spec) *)

Succeeded == Responded /\ Response.status = 200

\* the positions in the call history at which op was called
CallsOf(op) == {i \in 1..Len(calls) : calls[i].op = op}

\* op was called exactly once, on the file at path
CalledOnceOn(op, path) ==
    /\ Cardinality(CallsOf(op)) = 1
    /\ \A i \in CallsOf(op) : calls[i].path = path

\* the part of C30 that does not depend on the deletes
BranchFollowsClassifier ==
    Succeeded =>
        LET fileWasAudio == Response.body.metadata.fileWasAudio
        IN  /\ fileWasAudio = isAudioFile(InputPath, contentType)
            /\ fileWasAudio =>
                   /\ CallsOf("extractAudioFromVideo") = {}
                   /\ Response.body.metadata.processingTimes.extraction = 0
                   /\ CalledOnceOn("transcribeAudio", InputPath)
            /\ ~fileWasAudio =>
                   /\ CalledOnceOn("extractAudioFromVideo", InputPath)
                   /\ CalledOnceOn("transcribeAudio", OutputPath)
                   /\ \A i \in CallsOf("extractAudioFromVideo") :
                          \A j \in CallsOf("transcribeAudio") : i < j

\* C30 as stated: in a successful response fileWasAudio is the classifier's
\* result; when true the extractor was never invoked, extraction time is 0
\* and the downloaded file was transcribed; when false the extractor was
\* invoked exactly once before transcription, the extracted file was
\* transcribed, and both temp paths are absent from disk once the response is
\* sent.
C30_AsStated ==
    /\ BranchFollowsClassifier
    /\ (Succeeded /\ ~Response.body.metadata.fileWasAudio) =>
           /\ ~Exists(disk, InputPath)
           /\ ~Exists(disk, OutputPath)

\* C30 amended: as C30, with each temp path absent from disk once the
\* response is sent provided its delete succeeded: unlinkSync is attempted on
\* both, and a path is still on disk only if its unlinkSync threw.
C30_BranchesOfSuccess ==
    /\ BranchFollowsClassifier
    /\ (Succeeded /\ ~Response.body.metadata.fileWasAudio) =>
           /\ Cardinality(CallsOf("unlinkSync")) = 2
           /\ \A p \in {InputPath, OutputPath} :
                  /\ \E i \in CallsOf("unlinkSync") : calls[i].path = p
                  /\ Exists(disk, p) <=> p \in unlinkFailed

\* C30 witness: a 200 response for a video: one extraction, then the
\* transcription of the extracted file, and both temp files deleted.
C30_Witness ==
    /\ Succeeded
    /\ ~Response.body.metadata.fileWasAudio
    /\ CalledOnceOn("extractAudioFromVideo", InputPath)
    /\ CalledOnceOn("transcribeAudio", OutputPath)
    /\ ~Exists(disk, InputPath)
    /\ ~Exists(disk, OutputPath)

\* a 200 response for an audio download: no extraction, the download itself
\* transcribed
C30_AudioBranchTaken ==
    /\ Succeeded
    /\ Response.body.metadata.fileWasAudio
    /\ CallsOf("extractAudioFromVideo") = {}
    /\ CalledOnceOn("transcribeAudio", InputPath)

\* a 200 response for a video with the extracted file still on disk
C30_TempFileLeftAfterSuccess ==
    /\ Succeeded
    /\ ~Response.body.metadata.fileWasAudio
    /\ Exists(disk, OutputPath)

-----------------------------------------------------------------------------
(* Properties of the transcoding tool requirement (checked under Spec) *)

ToolNotFound == thrownBy = "ffmpeg"

FileClassified == fileIsAudio # Null

\* the size check accepted the file it was called on
SizeCheckPassed ==
    \E i \in CallsOf("validateFileSize") : ~exceedsLimit(calls[i].size)

\* C31: a request whose file is classified audio never requires the
\* transcoding tool: with ffmpegPath null it still proceeds to the size check
\* and, the size accepted, to transcription; the "FFmpeg is not installed or
\* not found" failure is raised only for a file classified as needing
\* extraction, and before any extraction is attempted.
C31_ToolOnlyNeededForVideo ==
    /\ (FileClassified /\ Val(fileIsAudio)) =>
           /\ ~ToolNotFound
           /\ CallsOf("extractAudioFromVideo") = {}
           /\ CalledOnceOn("validateFileSize", InputPath)
           /\ SizeCheckPassed => CalledOnceOn("transcribeAudio", InputPath)
    /\ ToolNotFound =>
           /\ FileClassified
           /\ ~Val(fileIsAudio)
           /\ ffmpegPath = Null
           /\ CallsOf("extractAudioFromVideo") = {}
           /\ Responded
           /\ Response.status = 500
    /\ (FileClassified /\ ~Val(fileIsAudio) /\ ffmpegPath = Null) => ToolNotFound

\* C31 witness: without the transcoding tool, an audio file was size checked,
\* transcribed and answered with 200.
C31_Witness ==
    /\ ffmpegPath = Null
    /\ FileClassified
    /\ Val(fileIsAudio)
    /\ Succeeded
    /\ CalledOnceOn("validateFileSize", InputPath)
    /\ CalledOnceOn("transcribeAudio", InputPath)

\* without the tool, a video is refused before any extraction
C31_VideoRefusedWithoutTool ==
    /\ ToolNotFound
    /\ ~Val(fileIsAudio)
    /\ CallsOf("extractAudioFromVideo") = {}
    /\ Response.body.message = "FFmpeg is not installed or not found."

-----------------------------------------------------------------------------
(* Properties of the stage order (checked under Spec) *)

\* the place of a helper call in the order Validated, Downloaded, Classified,
\* [Extracted], SizeChecked, Transcribed, Sentiment/Summarized, CleanedUp
StageRank(op) ==
    CASE op = "createTempPaths"       -> 1
      [] op = "downloadFile"          -> 2
      [] op = "isAudioFile"           -> 3
      [] op = "extractAudioFromVideo" -> 4
      [] op = "validateFileSize"      -> 5
      [] op = "transcribeAudio"       -> 6
      [] op = "analyzeSentiment"      -> 7
      [] op = "generateSummary"       -> 7
      [] op = "cleanupFiles"          -> 8
      [] op = "unlinkSync"            -> 8

CallsFollowStageOrder ==
    \A i, j \in 1..Len(calls) :
        i < j => StageRank(calls[i].op) <= StageRank(calls[j].op)

\* each stage that started had its predecessor completed
PredecessorsCompleted ==
    /\ Called("createTempPaths") =>
           ~urlIsInvalid(url) /\ ~apiKeyNotConfigured(apiKey)
    /\ Called("isAudioFile") => outcomes.download = "finished"
    /\ Called("extractAudioFromVideo") => FileClassified /\ ~Val(fileIsAudio)
    /\ Called("validateFileSize") => FileClassified /\ Val(fileIsAudio)
    /\ Called("transcribeAudio") =>
           /\ outcomes.download = "finished"
           /\ FileClassified
           /\ Val(fileIsAudio) => SizeCheckPassed
           /\ ~Val(fileIsAudio) => outcomes.extract = "ok"
    /\ Called("analyzeSentiment") => outcomes.transcribe = "ok"
    /\ Called("generateSummary") => outcomes.transcribe = "ok"
    /\ (Called("cleanupFiles") /\ thrownBy = "none") =>
           /\ sentimentResult # Null
           /\ summaryResult # Null
    /\ Called("cleanupFiles") => Responded
    /\ (Responded /\ Allocated) => Called("cleanupFiles")

-----------------------------------------------------------------------------
(* Properties of the two language stages (checked under Spec) *)

SentimentInFlight == pc = "sentiment"

SummaryInFlight == pc = "summarizing"

\* C35: after the transcription succeeds, the sentiment and the summary call
\* are dispatched together and joined before cleanup: while the sentiment
\* call is in flight the summary call has been dispatched too, without
\* waiting for the sentiment call to complete.
C35_SummaryDispatchedWithSentiment ==
    /\ SentimentInFlight => Called("generateSummary")
    /\ Called("cleanupFiles") /\ thrownBy = "none" =>
           sentimentResult # Null /\ summaryResult # Null

\* what the code does instead: the summary call is made only once the
\* sentiment call has completed, so the two are never in flight together
C35_SummaryWaitsForSentiment ==
    /\ Called("generateSummary") => sentimentResult # Null
    /\ ~(SentimentInFlight /\ SummaryInFlight)
    /\ SentimentInFlight => ~Called("generateSummary")

\* the sentiment call is in flight and no summary call has been made
C35_SentimentAloneInFlight ==
    /\ SentimentInFlight
    /\ Called("analyzeSentiment")
    /\ ~Called("generateSummary")

-----------------------------------------------------------------------------
(* Properties of the number of attempts (checked under Spec) *)

RequestStages ==
    {"downloadFile", "extractAudioFromVideo", "transcribeAudio",
     "analyzeSentiment", "generateSummary"}

\* C38: within one request no stage is retried: download, extraction,
\* transcription, sentiment and summary are each invoked at most once,
\* whether they succeed or fail.
C38_NoStageIsRetried ==
    \A op \in RequestStages : TimesCalled(op) <= 1

\* C38 witness: the Whisper call failed after a successful extraction and the
\* request was answered with 500 after a single transcription attempt.
C38_Witness ==
    /\ Responded
    /\ Response.status = 500
    /\ thrownBy = "transcribeAudio"
    /\ outcomes.transcribe = "failed"
    /\ TimesCalled("downloadFile") = 1
    /\ TimesCalled("extractAudioFromVideo") = 1
    /\ TimesCalled("transcribeAudio") = 1

\* a degraded sentiment stage is not attempted again either
C38_DegradedSentimentNotRetried ==
    /\ Succeeded
    /\ SentimentStageFailed
    /\ TimesCalled("analyzeSentiment") = 1

-----------------------------------------------------------------------------
(* Properties of the cross-frame summary (checked under SpecVideo) *)

\* the summary call was rejected, or answered text that is not JSON
VideoSummaryFailed ==
    /\ summaryReply # Null
    /\ \/ Val(summaryReply).kind = "error"
       \/ JSONparse(Val(Val(summaryReply).content)).threw

\* C39: if the cross-frame summary call fails or answers non-JSON, the call
\* still returns normally with summary null, the frameAnalyses collected so
\* far and their aggregatedAnalysis unchanged, and a summary tokenUsage of
\* zeros; metadata.framesAnalyzed is always the length of frameAnalyses.
C39_SummaryFailureIsAbsorbed ==
    /\ summaryReply # Null => VideoReturned
    /\ VideoSummaryFailed =>
           LET result == Val(analysis).value
           IN  /\ result.summary = Null
               /\ result.frameAnalyses = frameAnalyses
               /\ result.aggregatedAnalysis = aggregateFrameAnalyses(frameAnalyses)
               /\ result.metadata.tokenUsage.summary = ZeroTokenUsage
    /\ VideoReturned =>
           LET result == Val(analysis).value
           IN  result.metadata.framesAnalyzed = Len(result.frameAnalyses)

\* C39 witness: two frames were analysed, the summary call failed, and the
\* call returned the two analyses with a null summary.
C39_Witness ==
    /\ VideoSummaryFailed
    /\ VideoReturned
    /\ Val(analysis).value.summary = Null
    /\ Len(Val(analysis).value.frameAnalyses) = 2
    /\ Val(analysis).value.metadata.framesAnalyzed = 2

-----------------------------------------------------------------------------
(* Properties of the aggregate's shape (checked under SpecAggregate) *)

\* r has peopleCount {min, max, average}, activities, locations as an object
\* {all, mostCommon}, commonObjects and peopleDetails
HasFullShape(r) ==
    /\ DOMAIN r.peopleCount = {"min", "max", "average"}
    /\ ~r.locations.isArray
    /\ r.locations.mostCommon # Null
    /\ r.peopleDetails # Null

\* C40: aggregateFrameAnalyses returns the same result shape for every
\* input, the empty list included: peopleCount {min, max, average},
\* activities, locations as an object {all, mostCommon}, commonObjects and
\* peopleDetails are all present.
C40_SameShapeForEveryInput ==
    Aggregated => HasFullShape(Val(agResult))

\* what the code guarantees: the full shape for every non-empty list
C40_FullShapeUnlessEmpty ==
    (Aggregated /\ agInput # <<>>) => HasFullShape(Val(agResult))

\* the empty list: locations is an array and peopleDetails is missing
C40_EmptyListHasOtherShape ==
    /\ Aggregated
    /\ agInput = <<>>
    /\ Val(agResult).locations.isArray
    /\ Val(agResult).peopleDetails = Null

-----------------------------------------------------------------------------
(* Properties of the frame grabs (checked under SpecVideo) *)

GrabsStarted == extractPromises # <<>>

GrabsInFlight == {i \in 1..Len(extractPromises) : extractPromises[i] = "pending"}

ExtractFramesEnded == extracted # Null

\* every frame point has its grab started in the same step, before any of
\* them is awaited
AllGrabsStartedTogether ==
    /\ Len(extractPromises) \in {0, Len(framePaths)}
    /\ GrabsStarted => probeOutcome # "none"

\* C34: all grabs of one extractFrames call are started before any of them
\* is awaited, and the call completes, by returning or by throwing, only
\* once every started grab has resolved or failed, also when one of them
\* fails early.
C34_CompletesAfterEveryGrab ==
    /\ AllGrabsStartedTogether
    /\ ExtractFramesEnded => GrabsInFlight = {}

\* what the code guarantees: a call that returns has every grab resolved
C34_ReturnsAfterEveryGrab ==
    /\ AllGrabsStartedTogether
    /\ (ExtractFramesEnded /\ ~Val(extracted).threw) =>
           \A i \in 1..Len(extractPromises) : extractPromises[i] = "resolved"

\* extractFrames has thrown for one failed grab while another is in flight
C34_ThrownWithGrabInFlight ==
    /\ ExtractFramesEnded
    /\ Val(extracted).threw
    /\ GrabsStarted
    /\ \E i \in 1..Len(extractPromises) : extractPromises[i] = "rejected"
    /\ GrabsInFlight # {}

-----------------------------------------------------------------------------
(* Properties of the deletion of the frames directory (checked under SpecVideo) *)

\* the step in which analyzeVideoContent leaves and its finally block deletes
\* the frame files and the frames directory
FramesDirDeleted == ~VideoCallEnded /\ VideoCallEnded'

\* C33: temp files and frame directories are deleted only after every
\* operation that reads or writes them has completed or failed: no delete
\* happens while a frame grab on the directory is still in flight, including
\* when one grab fails while sibling grabs are still running.
C33_DeletedAfterLastUse ==
    [][FramesDirDeleted => GrabsInFlight' = {}]_vars

\* what the code guarantees: the deletion of a call that returns finds no
\* grab in flight
C33_DeletedAfterLastUseOnReturn ==
    [][(FramesDirDeleted /\ vpc' = "returned") => GrabsInFlight' = {}]_vars

\* the call has thrown and its finally block has run while a grab was still
\* writing into the directory
C33_DeletedUnderRunningGrab ==
    /\ vpc = "thrown"
    /\ ExtractFramesEnded
    /\ Val(extracted).threw
    /\ GrabsInFlight # {}

-----------------------------------------------------------------------------
(* Properties of the provider client (checked under SpecClient) *)

\* the calls that returned a client
ClientReturns == {i \in 1..Len(gcCalls) : ~gcCalls[i].threw}

\* C37: across any sequence of calls getOpenAIClient builds the provider
\* client at most once per process, and every later call returns that same
\* instance unchanged, even if the credential of the environment has changed
\* since; a call made while the credential is unset throws and caches
\* nothing.
C37_ClientBuiltOnceAndReused ==
    /\ gcBuilt <= 1
    /\ gcBuilt = 1 <=> gcClient # Null
    /\ \A i \in ClientReturns :
           /\ gcCalls[i].client # Null
           /\ gcCalls[i].client = gcClient
           /\ \A j \in (i + 1)..Len(gcCalls) :
                  /\ j \in ClientReturns
                  /\ gcCalls[j].client = gcCalls[i].client
    /\ \A i \in 1..Len(gcCalls) :
           /\ (~Truthy(gcCalls[i].env) /\ \A h \in 1..(i - 1) : gcCalls[h].threw)
                  => gcCalls[i].threw
           /\ gcCalls[i].threw => gcCalls[i].cached = Null /\ gcCalls[i].client = Null

\* C37 witness: a call without credential threw, the next call built the
\* client with the key set in between, and a call made after the key was
\* changed again returned the same instance.
C37_Witness ==
    /\ Len(gcCalls) = 3
    /\ gcCalls[1].threw
    /\ gcCalls[2].env = Some("sk-a")
    /\ gcCalls[3].env = Some("sk-b")
    /\ gcCalls[3].client = gcCalls[2].client
    /\ Val(gcCalls[3].client).apiKey = "sk-a"
    /\ gcBuilt = 1

-----------------------------------------------------------------------------
(* Properties of the temp paths of concurrent requests (checked under SpecPaths) *)

InFlight(r) == rqStage[r] \in {"allocated", "downloaded", "extracted"}

PathsOf(r) == {Val(rqPaths[r]).inputPath, Val(rqPaths[r]).outputPath}

\* C36: across any interleaving of concurrent requests, no two requests in
\* flight hold the same inputPath or outputPath: a temp path allocated for
\* one request is never written or deleted by another, and within one
\* request inputPath differs from outputPath.
C36_PathsNeverShared ==
    /\ \A r, s \in Requests :
           (r # s /\ InFlight(r) /\ InFlight(s)) => PathsOf(r) \cap PathsOf(s) = {}
    /\ \A r \in Requests :
           InFlight(r) =>
               /\ Val(rqPaths[r]).inputPath # Val(rqPaths[r]).outputPath
               /\ \A p \in PathsOf(r) : Exists(rqFiles, p) => rqFiles[p] = r
               /\ rqStage[r] \in {"downloaded", "extracted"} =>
                      Exists(rqFiles, Val(rqPaths[r]).inputPath)

\* what the code guarantees: the two paths of a request differ, and two
\* requests share a path only if they drew the same name, in which case
\* they share both
C36_OnlyEqualNamesCollide ==
    \A r, s \in Requests :
        (rqPaths[r] # Null /\ rqPaths[s] # Null) =>
            /\ Val(rqPaths[r]).inputPath # Val(rqPaths[s]).outputPath
            /\ Val(rqPaths[r]).inputPath = Val(rqPaths[s]).inputPath
                   <=> Val(rqPaths[r]).outputPath = Val(rqPaths[s]).outputPath

\* two requests of the same millisecond drew the same suffix: the download of
\* request 1 has been overwritten by request 2 while request 1 is in flight
C36_TwoRequestsShareAPath ==
    /\ rqStage[1] = "downloaded"
    /\ InFlight(2)
    /\ rqPaths[1] = rqPaths[2]
    /\ rqFiles[Val(rqPaths[1]).inputPath] = 2

\* request 2 has deleted the download of request 1, which is still in flight
C36_FileDeletedByOtherRequest ==
    /\ rqStage[1] = "downloaded"
    /\ rqStage[2] = "done"
    /\ ~Exists(rqFiles, Val(rqPaths[1]).inputPath)

=============================================================================
